---------------------------- MODULE Spec2Model ----------------------------
(***************************************************************************)
(* Lotus Forum Thread Exporter: the content script (handleExportClick,     *)
(* handleMessage, handleToggleExtension), the thread scraper               *)
(* (scrapeThreadData, scrapePage) and the jsPDF layout engine              *)
(* (PDFGenerator.generatePDF and the functions it calls).                  *)
(*                                                                         *)
(* Lengths of the layout engine are millimetres in the source; the model   *)
(* keeps every length in 1/100 mm, so that the source's factors (0.35 mm   *)
(* per point, 0.3, 0.5, 0.7 and 0.8 of a line height) stay whole numbers:  *)
(* a length of x mm is x * 100, and f * x mm is x * (100 * f).             *)
(*                                                                         *)
(* Text is what the external libraries make of it: a formatted text is     *)
(* represented by the number of lines doc.splitTextToSize wraps it to      *)
(* (0 for the empty string).                                               *)
(***************************************************************************)
EXTENDS Integers, Sequences, FiniteSets, TLC

(***************************************************************************)
(* Bounds of the model.                                                    *)
(***************************************************************************)
\* concurrent activations of handleExportClick the model has room for
MaxExports == 2
\* pages of the forum thread in the scraper's specifications
MaxPages == 3
\* posts of a thread handed to generatePDF in the layout specification
MaxPdfPosts == 2
\* wrapped lines of a long quote
LongQuote == 45
\* wrapped lines of a long post body
LongContent == 64
\* attachments of a post with many attachments
ManyAttachments == 7
\* button-reset timers that may be pending when an export starts
MaxTimers == 2
\* code points in a text handed to a helper function
MaxText == 3
\* characters in a plain text handed to cleanupWhitespace
MaxPlain == 6
\* depth of the elements nested in a content element
MaxNesting == 2
\* characters in the text of a share link
MaxLabel == 4

(***************************************************************************)
(* Program constants.                                                      *)
(***************************************************************************)
MARGIN == 15
LINE_HEIGHT == 6
FONT_SIZE == 12
HEADER_FONT_SIZE == 18
POST_PADDING == 6
POST_MARGIN_BOTTOM == 8
\* doc.internal.pageSize.getHeight() of the a4 portrait document, in mm
pageHeight == 297
\* storage reads of init
maxRetries == 10

VARIABLES
    variant,            \* which content script runs: "content.js" or "part_000"
    isWoltLabThread,    \* detector.isWoltLabThread() of the page
    forum,              \* the thread on the server: one list of message elements per page
    titleLines,         \* lines the thread title wraps to at the header font
    isExporting,        \* content script: let isExporting
    isExtensionEnabled, \* uiManager.isExtensionEnabled
    exportButton,       \* uiManager.exportButton # null
    buttonState,        \* state the button shows
    timers,             \* pending setTimeout(updateButtonState("ready")) callbacks
    exp,                \* activations of handleExportClick: locals and position
    lastCall,           \* the last call of handleExportClick and what became of it
    initPc,             \* position inside init
    retryCount,         \* init: let retryCount
    pdfPc,              \* position inside generatePDF
    pdfOwner,           \* activation that called generatePDF
    pdfError,           \* stage of generatePDF that threw
    docPages,           \* this.doc: number of pages, 0 while null
    currentY,           \* this.currentY, 1/100 mm
    postIndex,          \* addPosts: i + 1
    quoteIndex,         \* addPostQuotesWithPageBreaks: position in quotes
    lineIndex,          \* position in the wrapped lines / attachments
    rendered,           \* posts completely rendered into this.doc
    footers,            \* addFooter calls on this.doc
    pageCause,          \* what started the current page
    pageTop,            \* first text painted on the current page
    lastPaint,          \* kind and y of the last text painted for a post
    lastLink,           \* the last addTextWithLink call and what became of doc.link
    fills,              \* colours of the post header fills painted into this.doc, in order
    emojiMap,           \* window.emojiMapper.emojiMap: "null", "empty" or "loaded"
    call,               \* a call of a helper function: its name, argument and result
    storage,            \* chrome.storage.local and the IndexedDB 'pdfs' store
    jobs                \* activations of the async functions of the storage side

vars == << variant, isWoltLabThread, forum, titleLines, isExporting, isExtensionEnabled,
           exportButton, buttonState, timers, exp, lastCall, initPc, retryCount,
           pdfPc, pdfOwner, pdfError, docPages, currentY, postIndex,
           quoteIndex, lineIndex, rendered, footers, pageCause, pageTop,
           lastPaint, lastLink, fills, emojiMap, call, storage, jobs >>

contentVars == << variant, isWoltLabThread, forum, titleLines, isExporting,
                  isExtensionEnabled, exportButton, buttonState, timers, lastCall,
                  initPc, retryCount >>

storeVars == << storage, jobs >>

scriptVars == << emojiMap, call, storeVars, contentVars >>

layoutVars == << docPages, currentY, postIndex, quoteIndex, lineIndex, rendered,
                 footers, pageCause, pageTop, lastPaint, lastLink, fills >>

pdfVars == << pdfPc, pdfOwner, pdfError, docPages, currentY, postIndex,
              quoteIndex, lineIndex, rendered, footers, pageCause, pageTop,
              lastPaint, lastLink, fills >>

Slots == 1..MaxExports

(***************************************************************************)
(* ThreadScraper: extraction of the posts of one page.                     *)
(***************************************************************************)
\* A message element (article.wbbPost): author is the trimmed text of
\* .messageAuthor .username ("" when the element is missing or blank), content
\* the wrapped-line count of the normalized .messageText (0 when empty).
\* postLink: the share link gives a post number and a post URL.
\* glyphs: the emoji code points of the body text, in order.
Element(a, c, q, at) ==
    [author |-> a, content |-> c, quotes |-> q, attachments |-> at, postLink |-> FALSE,
     glyphs |-> << >>]

\* the same element with emoji in its body text
WithEmoji(messageEl, glyphs) == [ messageEl EXCEPT !.glyphs = glyphs ]

\* the same element with a share link a.wsShareButton[href*="postID"]
WithShareLink(messageEl) == [ messageEl EXCEPT !.postLink = TRUE ]

getPostAuthor(messageEl) ==
    IF messageEl.author # "" THEN messageEl.author ELSE "Unknown Author"

getPostContent(messageEl) == messageEl.content

\* the post object built in scrapePage's forEach
ExtractPost(messageEl, pageNumber) ==
    [ page        |-> pageNumber,
      author      |-> getPostAuthor(messageEl),
      content     |-> getPostContent(messageEl),
      quotes      |-> messageEl.quotes,
      attachments |-> messageEl.attachments,
      postLink    |-> messageEl.postLink,
      glyphs      |-> messageEl.glyphs ]

(***************************************************************************)
(* ThreadScraper: normalization of text.  A string is a sequence of        *)
(* characters.                                                             *)
(***************************************************************************)
LF == "\n"
SP == " "
TAB == "\t"

\* the characters \s matches
WhiteSpace == {SP, TAB, LF}

\* the last index of the longest run of characters of class that starts at i,
\* where s[i] is of class
RunEnd(s, i, class) ==
    CHOOSE e \in i..Len(s) :
        /\ \A j \in i..e : s[j] \in class
        /\ e = Len(s) \/ s[e + 1] \notin class

Last(S) == CHOOSE x \in S : \A y \in S : y <= x

\* length of the match of a regular expression of cleanupWhitespace at index i
\* of s, 0 when it does not match there.  /\n\s*\n\s*\n/: each \s* is greedy and
\* gives back only what the rest needs, so the match runs from the line break
\* at i to the last line break of the whitespace around it, when that holds
\* three line breaks or more.
MatchLength(regex, s, i) ==
    CASE regex = "\\n\\s*\\n\\s*\\n" ->
           IF s[i] # LF THEN 0
           ELSE LET breaks == { j \in i..RunEnd(s, i, WhiteSpace) : s[j] = LF }
                IN  IF Cardinality(breaks) >= 3 THEN Last(breaks) - i + 1 ELSE 0
      [] regex = "[ \\t]+" ->
           IF s[i] \in {SP, TAB} THEN RunEnd(s, i, {SP, TAB}) - i + 1 ELSE 0
      [] regex = "\\n " ->
           IF s[i] = LF /\ i < Len(s) /\ s[i + 1] = SP THEN 2 ELSE 0
      [] regex = " \\n" ->
           IF s[i] = SP /\ i < Len(s) /\ s[i + 1] = LF THEN 2 ELSE 0
      [] regex = "\\n{3,}" ->
           IF s[i] = LF /\ RunEnd(s, i, {LF}) - i + 1 >= 3
           THEN RunEnd(s, i, {LF}) - i + 1 ELSE 0

\* s.replace(/regex/g, by) from index i on: the matches from left to right,
\* none overlapping another
RECURSIVE ReplaceFrom(_, _, _, _)
ReplaceFrom(regex, by, s, i) ==
    IF i > Len(s)
    THEN << >>
    ELSE LET n == MatchLength(regex, s, i)
         IN  IF n > 0 THEN by \o ReplaceFrom(regex, by, s, i + n)
             ELSE << s[i] >> \o ReplaceFrom(regex, by, s, i + 1)

Replace(s, regex, by) == ReplaceFrom(regex, by, s, 1)

\* String.prototype.trim
trim(s) ==
    LET inked == { i \in DOMAIN s : s[i] \notin WhiteSpace }
    IN  IF inked = {} THEN << >>
        ELSE SubSeq(s, CHOOSE i \in inked : \A j \in inked : i <= j, Last(inked))

\* cleanupWhitespace with a fault: the spaces at line starts are removed
\* before the runs of spaces and tabs are collapsed
cleanupWhitespace_LineStartFirst(text) ==
    trim(Replace(Replace(Replace(Replace(Replace(text,
        "\\n\\s*\\n\\s*\\n", << LF, LF >>),
        "\\n ", << LF >>),
        "[ \\t]+", << SP >>),
        " \\n", << LF >>),
        "\\n{3,}", << LF, LF >>))

\* cleanupWhitespace with a fault: the result is not trimmed
cleanupWhitespace_NoTrim(text) ==
    Replace(Replace(Replace(Replace(Replace(text,
        "\\n\\s*\\n\\s*\\n", << LF, LF >>),
        "[ \\t]+", << SP >>),
        "\\n ", << LF >>),
        " \\n", << LF >>),
        "\\n{3,}", << LF, LF >>)

\* cleanupWhitespace
cleanupWhitespace(text) ==
    trim(Replace(Replace(Replace(Replace(Replace(text,
        "\\n\\s*\\n\\s*\\n", << LF, LF >>),
        "[ \\t]+", << SP >>),
        "\\n ", << LF >>),
        " \\n", << LF >>),
        "\\n{3,}", << LF, LF >>))

\* the characters of plain texts: a letter, space, tab, line break
PlainChars == {"a", SP, TAB, LF}

PlainTexts == UNION { [1..n -> PlainChars] : n \in 0..MaxPlain }

\* a helper function has been called with this argument and has not returned
Called(fn, arg) == [ fn |-> fn, arg |-> arg, done |-> FALSE, result |-> << >> ]

\* the call returns this result
Return(result) ==
    /\ call' = [ call EXCEPT !.done = TRUE, !.result = result ]
    /\ UNCHANGED << emojiMap, storeVars, contentVars, exp, pdfVars >>

\* cleanupWhitespace(text) runs to its return
CleanupWhitespace ==
    /\ call.fn = "cleanupWhitespace"
    /\ ~call.done
    /\ Return(cleanupWhitespace(call.arg))

(***************************************************************************)
(* ThreadScraper: normalization of markup.  A DOM node is a text node with *)
(* its data or an element with its tag, child nodes and href.              *)
(***************************************************************************)
TextNode(data) == [ tag |-> "#text", data |-> data, children |-> << >>, href |-> << >> ]

El(tag, children) ==
    [ tag |-> tag, data |-> << >>, children |-> children,
      href |-> IF tag = "a" THEN << "u" >> ELSE << >> ]

\* element.textContent: the data of all text nodes below, in document order
RECURSIVE textContent(_), textContentOf(_)
textContent(node) ==
    IF node.tag = "#text" THEN node.data ELSE textContentOf(node.children)

textContentOf(nodes) ==
    IF nodes = << >> THEN << >>
    ELSE textContent(Head(nodes)) \o textContentOf(Tail(nodes))

\* extractTextContent
extractTextContent(element) == textContent(element)

\* element.querySelectorAll('li'): the li elements below, in document order
RECURSIVE ListItems(_)
ListItems(nodes) ==
    IF nodes = << >> THEN << >>
    ELSE (IF Head(nodes).tag = "li" THEN << Head(nodes) >> ELSE << >>)
            \o ListItems(Head(nodes).children) \o ListItems(Tail(nodes))

\* the bullet character U+2022 of a ul item
BULLET == "bullet"

\* (index + 1) + '. ' of an ol item, for the first nine items
Ordinal(n) == << << "1", "2", "3", "4", "5", "6", "7", "8", "9" >>[n], ".", SP >>

\* the lines of a ul (ordered = FALSE) or ol, joined by '\n'
RECURSIVE ItemLines(_, _, _)
ItemLines(items, ordered, index) ==
    IF index > Len(items) THEN << >>
    ELSE (IF index > 1 THEN << LF >> ELSE << >>)
            \o (IF ordered THEN Ordinal(index) ELSE << BULLET, SP >>)
            \o extractTextContent(items[index])
            \o ItemLines(items, ordered, index + 1)

\* formatElement; FormatNodes is the div case: the trimmed data of the text
\* children and the formatted element children, joined
RECURSIVE formatElement(_), FormatNodes(_)
formatElement(element) ==
    CASE element.tag = "p" -> << LF, LF >> \o extractTextContent(element)
      [] element.tag = "br" -> << LF >>
      [] element.tag \in {"strong", "b"} ->
           << "*", "*" >> \o extractTextContent(element) \o << "*", "*" >>
      [] element.tag \in {"em", "i"} ->
           << "*" >> \o extractTextContent(element) \o << "*" >>
      [] element.tag = "a" ->
           extractTextContent(element) \o << SP, "(" >> \o element.href \o << ")" >>
      [] element.tag = "blockquote" ->
           << LF, ">", SP >> \o extractTextContent(element) \o << LF >>
      [] element.tag = "ul" ->
           << LF >> \o ItemLines(ListItems(element.children), FALSE, 1) \o << LF >>
      [] element.tag = "ol" ->
           << LF >> \o ItemLines(ListItems(element.children), TRUE, 1) \o << LF >>
      [] element.tag = "div" -> FormatNodes(element.children)
      [] OTHER -> extractTextContent(element)

FormatNodes(nodes) ==
    IF nodes = << >> THEN << >>
    ELSE (IF Head(nodes).tag = "#text" THEN trim(Head(nodes).data)
          ELSE formatElement(Head(nodes))) \o FormatNodes(Tail(nodes))

\* parseAndFormatContent
parseAndFormatContent(element) == cleanupWhitespace(FormatNodes(element.children))

\* the nodes phrasing markup of that depth is made of
RECURSIVE Phrasing(_)
Phrasing(depth) ==
    IF depth = 0
    THEN { TextNode(<< "x" >>) }
    ELSE Phrasing(depth - 1) \cup
         { El(tag, << child >>) : tag \in {"b", "i", "a"}, child \in Phrasing(depth - 1) }

\* the nodes a message text of that depth is made of
RECURSIVE Flow(_)
Flow(depth) ==
    IF depth = 0
    THEN { TextNode(<< "x" >>) }
    ELSE Phrasing(depth) \cup { El("br", << >>) }
         \cup { El("p", << child >>) : child \in Phrasing(depth - 1) }
         \cup { El(tag, << El("li", << child >>), El("li", << child >>) >>) :
                   tag \in {"ul", "ol"}, child \in Phrasing(depth - 1) }
         \cup { El(tag, << child >>) :
                   tag \in {"blockquote", "div", "span"}, child \in Flow(depth - 1) }

\* the .messageText elements: one or two child nodes
ContentElements ==
    { El("div", << node >>) : node \in Flow(MaxNesting) } \cup
    { El("div", << first, second >>) : first \in Flow(MaxNesting), second \in Flow(1) }

\* parseAndFormatContent(element) runs to its return
ParseAndFormatContent ==
    /\ call.fn = "parseAndFormatContent"
    /\ ~call.done
    /\ Return(parseAndFormatContent(call.arg))

(***************************************************************************)
(* ThreadScraper: post numbers and attachment types.                       *)
(***************************************************************************)
\* the characters \d matches
Digits == {"0", "1", "2", "3", "4", "5", "6", "7", "8", "9"}

\* text.match(/^#+\d+$/): hashes, then digits to the end of the text
MatchesPostNumber(text) ==
    /\ text # << >>
    /\ text[1] = "#"
    /\ LET hashes == RunEnd(text, 1, {"#"})
       IN  /\ hashes < Len(text)
           /\ text[hashes + 1] \in Digits
           /\ RunEnd(text, hashes + 1, Digits) = Len(text)

\* getPostNumber with a fault: the matched text is returned as it is
getPostNumber_KeepHashes(link) ==
    IF link.present /\ MatchesPostNumber(trim(link.text)) THEN trim(link.text) ELSE << >>

\* getPostNumber of a message element with this a.wsShareButton[href*="postID"]
\* (present = FALSE: querySelector returns null)
getPostNumber(link) ==
    IF link.present /\ MatchesPostNumber(trim(link.text))
    THEN LET text == trim(link.text)
         IN  << "#" >> \o SubSeq(text, RunEnd(text, 1, {"#"}) + 1, Len(text))
    ELSE << >>

\* the share links of message elements: none, or one with a text
ShareLinks ==
    { [ present |-> FALSE, text |-> << >> ] } \cup
    { [ present |-> TRUE, text |-> text ] :
        text \in UNION { [1..n -> {"#", "3", "a", SP}] : n \in 0..MaxLabel } }

\* getPostNumber(messageEl) runs to its return
GetPostNumber ==
    /\ call.fn = "getPostNumber"
    /\ ~call.done
    /\ Return(getPostNumber(call.arg))

Lowers == << "a", "b", "c", "d", "e", "f", "g", "h", "i", "j", "k", "l", "m", "n", "o", "p", "q", "r", "s", "t", "u", "v", "w", "x", "y", "z" >>
Uppers == << "A", "B", "C", "D", "E", "F", "G", "H", "I", "J", "K", "L", "M", "N", "O", "P", "Q", "R", "S", "T", "U", "V", "W", "X", "Y", "Z" >>

\* String.prototype.toLowerCase
toLowerCase(s) ==
    [ i \in DOMAIN s |->
        IF \E k \in DOMAIN Uppers : Uppers[k] = s[i]
        THEN Lowers[CHOOSE k \in DOMAIN Uppers : Uppers[k] = s[i]]
        ELSE s[i] ]

\* String.prototype.toUpperCase
toUpperCase(s) ==
    [ i \in DOMAIN s |->
        IF \E k \in DOMAIN Lowers : Lowers[k] = s[i]
        THEN Uppers[CHOOSE k \in DOMAIN Lowers : Lowers[k] = s[i]]
        ELSE s[i] ]

\* url.split(".").pop(): what follows the last dot, the whole url without one
LastPart(url) ==
    LET dots == { i \in DOMAIN url : url[i] = "." }
    IN  IF dots = {} THEN url ELSE SubSeq(url, Last(dots) + 1, Len(url))

imageTypes == { << "j", "p", "g" >>, << "j", "p", "e", "g" >>, << "p", "n", "g" >>, << "g", "i", "f" >>, << "w", "e", "b", "p" >>, << "s", "v", "g" >> }
videoTypes == { << "m", "p", "4" >>, << "a", "v", "i" >>, << "m", "o", "v" >>, << "w", "m", "v" >> }
audioTypes == { << "m", "p", "3" >>, << "w", "a", "v" >>, << "o", "g", "g" >>, << "m", "4", "a" >> }

\* getAttachmentType with a fault: the extension is compared as written
getAttachmentType_CaseSensitive(url) ==
    LET extension == LastPart(url)
    IN  IF extension \in imageTypes THEN "image"
        ELSE IF extension \in videoTypes THEN "video"
        ELSE IF extension \in audioTypes THEN "audio"
        ELSE "file"

\* getAttachmentType
getAttachmentType(url) ==
    LET extension == toLowerCase(LastPart(url))
    IN  IF extension \in imageTypes THEN "image"
        ELSE IF extension \in videoTypes THEN "video"
        ELSE IF extension \in audioTypes THEN "audio"
        ELSE "file"

\* extensions the arrays do not hold: zip, pdf, a stem of jpg, jpg with a
\* further letter, and the empty one of a url that ends with a dot
otherTypes == { << "z", "i", "p" >>, << "p", "d", "f" >>, << "j", "p" >>, << "j", "p", "g", "x" >>, <<  >> }

\* the spellings of an extension
Spelled(extension, spelling) ==
    CASE spelling = "lower" -> extension
      [] spelling = "upper" -> toUpperCase(extension)
      [] spelling = "capital" ->
           IF extension = << >> THEN << >>
           ELSE toUpperCase(SubSeq(extension, 1, 1)) \o SubSeq(extension, 2, Len(extension))

\* attachment urls: a path with or without dots, then a dot and an extension
\* in some spelling, or no extension at all
AttachmentUrls ==
    { [ extension |-> extension,
        url |-> path \o << "." >> \o Spelled(extension, spelling) ] :
        path \in { << "f" >>, << "h", ".", "o", "/", "f" >> },
        extension \in imageTypes \cup videoTypes \cup audioTypes \cup otherTypes,
        spelling \in {"lower", "upper", "capital"} }
    \cup { [ extension |-> << >>, url |-> path ] : path \in { << "f" >>, << "h", ".", "o", "/", "f" >> } }

\* getAttachmentType(url) runs to its return
GetAttachmentType ==
    /\ call.fn = "getAttachmentType"
    /\ ~call.done
    /\ Return(getAttachmentType(call.arg.url))

\* scrapePage: every message element of the page becomes a post, in document order
RECURSIVE ScrapePagePosts(_, _)
ScrapePagePosts(messageElements, pageNumber) ==
    IF messageElements = << >> THEN << >>
    ELSE << ExtractPost(Head(messageElements), pageNumber) >>
         \o ScrapePagePosts(Tail(messageElements), pageNumber)

\* PushPosts with a fault: the page's posts are put in front
PushPosts_Unshift(posts, pagePosts) == pagePosts \o posts

\* threadData.posts.push(...pagePosts)
PushPosts(posts, pagePosts) == posts \o pagePosts

\* detector.getTotalPages()
getTotalPages == Len(forum)


(***************************************************************************)
(* Activations of handleExportClick.  An activation is the async           *)
(* function's frame: its position (the await it is suspended at) and its   *)
(* locals, those of the scrapeThreadData call it makes included.           *)
(*   pc        "none" (free), "fetch" (scrapePage awaits fetch),           *)
(*             "pdf" (generatePDF runs), "storePDF", "storeExport",        *)
(*             "storePdfBlob", "exportComplete", "updateExportStats",      *)
(*             "exportError" (awaits the answer to that message), "done"   *)
(*   page      scrapeThreadData: let page                                  *)
(*   fetch     what the network makes of the outstanding request           *)
(*   requested page numbers of the scrapePage calls made, in order         *)
(*   settled   scrapePage calls that have resolved or rejected             *)
(*   posts     threadData.posts                                            *)
(*   failed    pages whose scrapePage call was rejected                    *)
(*   pdfBlob   what generatePDF settled with                               *)
(*   downloads a.click() calls                                             *)
(*   sent      actions of the chrome.runtime.sendMessage calls, in order   *)
(*   persist   what became of the last persistence message: its answer,    *)
(*             or "throw" when the sendMessage call itself threw           *)
(*   outcome   "success" / "error": the updateButtonState call that ended  *)
(*             the export                                                  *)
(***************************************************************************)
NoExport ==
    [ pc |-> "none", page |-> 0, fetch |-> "none", requested |-> << >>, settled |-> 0,
      posts |-> << >>, failed |-> {},
      pdfBlob |-> "none", downloads |-> 0, sent |-> << >>, persist |-> "none",
      outcome |-> "none" ]

\* what becomes of fetch(pageUrl) / response.text() / the extraction: resolved,
\* rejected, or never settled (the server does not answer; no timer is armed)
FetchFates == {"ok", "reject", "timeout"}

\* scrapeThreadData up to its first await: page = 1, scrapePage(1) awaits fetch
StartScrape(fate) ==
    [ NoExport EXCEPT !.pc = "fetch", !.page = 1, !.fetch = fate, !.requested = << 1 >> ]

\* RequestNext with a fault: the page that has just settled is requested again
RequestNext_Again(x, fate) ==
    [ x EXCEPT !.page = @ + 1, !.fetch = fate, !.requested = Append(@, x.page) ]

\* page++ and, while page <= totalPages, the next await this.scrapePage(page)
RequestNext(x, fate) ==
    [ x EXCEPT !.page = @ + 1, !.fetch = fate, !.requested = Append(@, x.page + 1) ]

\* try { pagePosts = await scrapePage(page); posts.push(...pagePosts) }
PageScraped(x) ==
    [ x EXCEPT !.posts = PushPosts(@, ScrapePagePosts(forum[x.page], x.page)) ]

\* PageFailed with a fault: the catch leaves the loop
PageFailed_Break(x) ==
    [ x EXCEPT !.failed = @ \cup {x.page}, !.page = getTotalPages ]

\* catch (error) { console.warn(...); logger.warn(...) }: the loop goes on
PageFailed(x) ==
    [ x EXCEPT !.failed = @ \cup {x.page} ]

\* uiManager.updateButtonState(state): nothing without a button
ButtonAfter(state) == IF exportButton THEN state ELSE buttonState

\* the setTimeout that "success" and "error" arm
TimersAfter(state) ==
    IF exportButton /\ state \in {"success", "error"} THEN timers + 1 ELSE timers

\* the free activation a new call of handleExportClick runs in
FreeSlots == { e \in Slots : exp[e].pc = "none" }
NewSlot == CHOOSE e \in FreeSlots : \A f \in FreeSlots : e <= f

InFlight == { e \in Slots : exp[e].pc \notin {"none", "done"} }

\* generatePDF runs from call to settlement without yielding to the event loop
\* (its awaits are on async functions that await nothing themselves), and an
\* activation that has run its finally block is gone before the next event
Busy == pdfPc # "idle" \/ \E e \in Slots : exp[e].pc = "done"

\* ExportGuard with a fault: the flag is not consulted
ExportGuard_NoFlag == ~isExtensionEnabled

\* if (isExporting || !uiManager.isEnabled()) return;
ExportGuard == isExporting \/ ~isExtensionEnabled

\* handleExportClick from its call to its first await (scrapePage's fetch)
HandleExportClick(via, response) ==
    IF ExportGuard
    THEN /\ lastCall' = [ via |-> via, whileExporting |-> isExporting, initialized |-> initPc = "done",
                          started |-> FALSE, response |-> response ]
         /\ UNCHANGED << isExporting, buttonState, exp >>
    ELSE /\ FreeSlots # {}
         /\ timers < MaxTimers
         /\ \E fate \in FetchFates :
                exp' = [exp EXCEPT ![NewSlot] = StartScrape(fate)]
         /\ isExporting' = TRUE
         /\ buttonState' = ButtonAfter("exporting")
         /\ lastCall' = [ via |-> via, whileExporting |-> isExporting, initialized |-> initPc = "done",
                          started |-> TRUE, response |-> response ]

\* a click on the export button: a disabled button fires no click event
ClickExportButton ==
    /\ ~Busy
    /\ exportButton
    /\ buttonState # "exporting"
    /\ HandleExportClick("button", "none")
    /\ UNCHANGED << emojiMap, call, storeVars, variant, isWoltLabThread, forum, titleLines, isExtensionEnabled, exportButton,
                    timers, initPc, retryCount >>
    /\ UNCHANGED pdfVars

\* handleExportClick(); sendResponse({ success: true });
ExportThreadResponse == "success"

\* handleMessage, case "exportThread"
MessageExportThread ==
    /\ ~Busy
    /\ initPc # "start"
    /\ IF isWoltLabThread /\ isExtensionEnabled
       THEN HandleExportClick("message", ExportThreadResponse)
       ELSE /\ lastCall' = [ via |-> "message", whileExporting |-> isExporting, initialized |-> initPc = "done",
                             started |-> FALSE, response |-> "failure" ]
            /\ UNCHANGED << isExporting, buttonState, exp >>
    /\ UNCHANGED << emojiMap, call, storeVars, variant, isWoltLabThread, forum, titleLines, isExtensionEnabled, exportButton,
                    timers, initPc, retryCount >>
    /\ UNCHANGED pdfVars

\* handleToggleExtension(enabled): from the "toggleExtension" message or from
\* chrome.storage.onChanged
HandleToggleExtension(enabled) ==
    /\ ~Busy
    /\ initPc # "start"
    /\ isExtensionEnabled' = enabled
    /\ IF enabled
       THEN IF isWoltLabThread
            THEN /\ exportButton' = TRUE
                 /\ buttonState' = IF exportButton THEN buttonState ELSE "ready"
            ELSE UNCHANGED << exportButton, buttonState >>
       ELSE /\ exportButton' = FALSE
            /\ UNCHANGED buttonState
    /\ UNCHANGED << emojiMap, call, storeVars, variant, isWoltLabThread, forum, titleLines, isExporting, timers, exp,
                    lastCall, initPc, retryCount >>
    /\ UNCHANGED pdfVars

\* the callback of setTimeout(() => this.updateButtonState("ready"), ...)
ButtonResetTimer ==
    /\ ~Busy
    /\ timers > 0
    /\ timers' = timers - 1
    /\ buttonState' = ButtonAfter("ready")
    /\ UNCHANGED << emojiMap, call, storeVars, variant, isWoltLabThread, forum, titleLines, isExporting, isExtensionEnabled,
                    exportButton, exp, lastCall, initPc, retryCount >>
    /\ UNCHANGED pdfVars

(***************************************************************************)
(* scrapeThreadData: the fetch loop.                                       *)
(***************************************************************************)
\* the request of exp[e].page settles: its posts are pushed or the failure is
\* caught; then the loop requests the next page or, past the last one,
\* scrapeThreadData returns and handleExportClick calls generatePDF
ScrapePageSettle(e) ==
    /\ ~Busy
    /\ exp[e].pc = "fetch"
    /\ exp[e].fetch \in {"ok", "reject"}
    /\ LET y == IF exp[e].fetch = "ok" THEN PageScraped(exp[e]) ELSE PageFailed(exp[e])
           x == [ y EXCEPT !.settled = @ + 1 ]
       IN  IF x.page < getTotalPages
           THEN /\ \E fate \in FetchFates :
                       exp' = [exp EXCEPT ![e] = RequestNext(x, fate)]
                /\ UNCHANGED << pdfPc, pdfOwner >>
           ELSE /\ exp' = [exp EXCEPT ![e] = [x EXCEPT !.pc = "pdf", !.fetch = "none"]]
                /\ pdfPc' = "init"
                /\ pdfOwner' = e
    /\ UNCHANGED pdfError
    /\ UNCHANGED scriptVars
    /\ UNCHANGED layoutVars

(***************************************************************************)
(* EmojiMapper (js/emoji.js).  A text is a sequence of code points; the    *)
(* table maps an emoji code point to its description.                      *)
(***************************************************************************)
\* the code points texts are made of: a letter, U+1F600, U+1F47D, U+2600
CodePoints == {"a", "grin", "alien", "sun"}

\* the code points const emojiRegex matches
emojiRegex == {"grin", "alien", "sun"}

\* this.emojiMap after a successful load: emoji -> description
EmojiTable == [ emoji \in {"grin", "sun"} |->
                  IF emoji = "grin" THEN << "g", "f" >> ELSE << "s" >> ]

\* how the fetch of libs/emojis.json ends: the Map is filled, or the catch
\* block installs an empty Map
LoadFates == {"loaded", "empty"}

\* loadEmojiData, started by the constructor, settles
LoadEmojiData ==
    /\ emojiMap = "null"
    /\ \E fate \in LoadFates : emojiMap' = fate
    /\ UNCHANGED << call, storeVars, contentVars, exp, pdfVars >>

\* emojiToText with a fault: the brackets are left out
emojiToText_Bare(map, emoji) ==
    IF map = "loaded" /\ emoji \in DOMAIN EmojiTable THEN EmojiTable[emoji] ELSE << emoji >>

\* emojiToText
emojiToText(map, emoji) ==
    IF map = "null"
    THEN << emoji >>
    ELSE IF map = "loaded" /\ emoji \in DOMAIN EmojiTable
         THEN << "[" >> \o EmojiTable[emoji] \o << "]" >>
         ELSE << emoji >>

\* text.replace(emojiRegex, emoji => this.emojiToText(emoji))
RECURSIVE ReplaceEmoji(_, _)
ReplaceEmoji(map, text) ==
    IF text = << >>
    THEN << >>
    ELSE (IF Head(text) \in emojiRegex THEN emojiToText(map, Head(text))
          ELSE << Head(text) >>) \o ReplaceEmoji(map, Tail(text))

\* processText of a string
processText(map, text) ==
    IF map = "null" \/ map = "empty" THEN text ELSE ReplaceEmoji(map, text)

\* the strings of at most MaxText code points
Texts == UNION { [1..n -> CodePoints] : n \in 0..MaxText }

\* a caller runs processText(text) to its return; the call does not wait for
\* loadEmojiData
ProcessText ==
    /\ \E text \in Texts :
         call' = [ fn |-> "processText", arg |-> text, map |-> emojiMap,
                   result |-> processText(emojiMap, text) ]
    /\ UNCHANGED << emojiMap, storeVars, contentVars, exp, pdfVars >>

\* PDFGenerator.replaceEmojis of a string; window.emojiMapper is set when
\* js/emoji.js is loaded
replaceEmojis(text) == processText(emojiMap, text)

(***************************************************************************)
(* PDFGenerator: the layout engine.  L is the generator's layout state:    *)
(* currentY, the pages of this.doc, what started the current page, the     *)
(* first text painted on it and the last text painted.                     *)
(***************************************************************************)
Mm(x) == x * 100

\* pageHeight - PDF_CONSTANTS.MARGIN: the bottom margin
BottomLimit == Mm(pageHeight) - Mm(MARGIN)

\* const lineHeight = PDF_CONSTANTS.FONT_SIZE * 0.35
ContentLineHeight == FONT_SIZE * 35

\* glyphs: the emoji code points of the text handed to this.doc.text; map:
\* this.emojiMap at that moment
NoPaint == [ kind |-> "none", y |-> 0, page |-> 0, glyphs |-> << >>, map |-> "null" ]

\* no addTextWithLink call yet
NoLink == [ n |-> 0, kind |-> "none", y |-> 0, cursor |-> 0, painted |-> FALSE,
            outcome |-> "none" ]

Layout == [ currentY |-> currentY, pages |-> docPages, cause |-> pageCause,
            top |-> pageTop, paint |-> lastPaint, link |-> lastLink, fills |-> fills ]

SetLayout(L) ==
    /\ currentY' = L.currentY
    /\ docPages' = L.pages
    /\ pageCause' = L.cause
    /\ pageTop' = L.top
    /\ lastPaint' = L.paint
    /\ lastLink' = L.link
    /\ fills' = L.fills

\* AddPage with a fault: the cursor is left where it was
AddPage_KeepCursor(L, cause) ==
    [ L EXCEPT !.pages = @ + 1, !.cause = cause, !.top = "none" ]

\* this.doc.addPage(); this.currentY = PDF_CONSTANTS.MARGIN;
AddPage(L, cause) ==
    [ L EXCEPT !.pages = @ + 1, !.currentY = Mm(MARGIN), !.cause = cause, !.top = "none" ]

\* this.doc.text(text, ..., this.currentY) of a text with these emoji code points
TextOf(L, kind, glyphs) ==
    [ L EXCEPT !.top = IF @ = "none" THEN kind ELSE @,
               !.paint = [ kind |-> kind, y |-> L.currentY, page |-> L.pages,
                           glyphs |-> glyphs, map |-> emojiMap ] ]

\* this.doc.text(..., this.currentY)
Text(L, kind) == TextOf(L, kind, << >>)

\* PDF_CONSTANTS: RGB colours
POST_BG_COLOR_1 == << 255, 255, 255 >>
POST_BG_COLOR_2 == << 248, 252, 248 >>
HEADER_BG_COLOR == << 0, 51, 51 >>

\* addSinglePost: const backgroundColor, from the 0-based index of the post
backgroundColor(index) == IF index % 2 = 0 THEN POST_BG_COLOR_1 ELSE POST_BG_COLOR_2

\* addRoundedHeaderBackground: setFillColor(HEADER_BG_COLOR), roundedRect(..., "F")
addRoundedHeaderBackground(L) == [ L EXCEPT !.fills = Append(@, HEADER_BG_COLOR) ]

\* what becomes of this.doc.getTextWidth / this.doc.link
LinkFates == {"ok", "throw"}

\* LinkCatch with a fault: the exception of doc.link leaves addTextWithLink
LinkCatch_Rethrow(fate) == IF fate = "throw" THEN "thrown" ELSE "linked"

\* addTextWithLink: try { ... this.doc.link(...) } catch (error) { logger.warn }
LinkCatch(fate) == IF fate = "throw" THEN "failed" ELSE "linked"

\* addTextWithLink(text, url, x, y = this.currentY): the text is painted, then
\* the link annotation is attached inside the try block; n counts the calls,
\* painted says that doc.text ran before doc.link, cursor is this.currentY on return
addTextWithLink(L, kind, fate) ==
    LET L1 == Text(L, kind)
    IN  [ L1 EXCEPT !.link = [ n |-> L.link.n + 1, kind |-> kind, y |-> L.currentY,
                               cursor |-> L1.currentY,
                               painted |-> L1.paint.kind = kind /\ L1.paint.y = L.currentY,
                               outcome |-> LinkCatch(fate) ] ]

\* an exception left addTextWithLink
LinkThrown(L) == L.link.outcome = "thrown"

\* addSpace and every other this.currentY += space
AddSpace(L, space) == [ L EXCEPT !.currentY = @ + space ]

\* addPosts and checkAndAddPageBreak: if (this.currentY > this.pageHeight - 50)
NeedsPostBreak(y) == y > Mm(pageHeight) - Mm(50)

checkAndAddPageBreak(L) ==
    IF NeedsPostBreak(L.currentY) THEN AddPage(L, "post") ELSE L

\* addPostQuotesWithPageBreaks: currentY + LINE_HEIGHT * 2 > pageHeight - MARGIN
NeedsQuoteBreak(y) == y + Mm(LINE_HEIGHT) * 2 > BottomLimit

\* NeedsContentBreak with a fault: the line is never checked
NeedsContentBreak_Never(y) == FALSE

\* addPostContentWithPageBreaks: currentY + lineHeight > pageHeight - MARGIN
NeedsContentBreak(y) == y + ContentLineHeight > BottomLimit

\* addPostAttachmentsWithPageBreaks:
\* currentY + LINE_HEIGHT * (attachments.length + 2) > pageHeight - MARGIN
NeedsAttachmentsBreak(y, n) == y + Mm(LINE_HEIGHT) * (n + 2) > BottomLimit

\* ContinuationPage with a fault: the new page gets no marker
ContinuationPage_NoMarker(L) == AddPage(L, "content")

\* the page break inside a body: new page, "(continued...)" at its top
ContinuationPage(L) ==
    AddSpace(Text(AddPage(L, "content"), "continued"), Mm(LINE_HEIGHT))

\* GeneratePDFCatch with a fault: the error is swallowed and the document,
\* as far as it got, is returned
GeneratePDFCatch_Swallow == "resolved"

\* generatePDF: catch (error) { ...; throw error; }
GeneratePDFCatch == "rejected"

\* the thread generatePDF was called with
threadPosts == exp[pdfOwner].posts

post == threadPosts[postIndex]

\* initializePDF
InitializePDF ==
    /\ pdfPc = "init"
    /\ \/ /\ SetLayout([ currentY |-> Mm(MARGIN), pages |-> 1, cause |-> "init",
                         top |-> "none", paint |-> NoPaint, link |-> NoLink,
                         fills |-> << >> ])
          /\ rendered' = 0
          /\ footers' = 0
          /\ pdfPc' = "header"
          /\ UNCHANGED pdfError
       \/ \* jsPDF library not found
          /\ pdfError' = "init"
          /\ pdfPc' = GeneratePDFCatch
          /\ UNCHANGED layoutVars
    /\ UNCHANGED << postIndex, quoteIndex, lineIndex, pdfOwner, exp >>
    /\ UNCHANGED scriptVars

\* addThreadHeader: title lines, source link, meta line, dotted separator
AddThreadHeader ==
    /\ pdfPc = "header"
    /\ \/ \E fate \in LinkFates :
            LET L1 == Text(Layout, "title")
                L2 == AddSpace(L1, titleLines * (HEADER_FONT_SIZE + 2) * 35)
                L3 == AddSpace(L2, LINE_HEIGHT * 50)
                Lk == addTextWithLink(L3, "source", fate)
                L4 == AddSpace(Lk, LINE_HEIGHT * 80)
                L5 == AddSpace(Text(L4, "meta"), Mm(LINE_HEIGHT))
                L6 == AddSpace(AddSpace(AddSpace(L5, LINE_HEIGHT * 50), Mm(1)),
                               LINE_HEIGHT * 50)
            IN  IF LinkThrown(Lk)
                THEN /\ SetLayout(Lk)
                     /\ pdfError' = "link"
                     /\ pdfPc' = GeneratePDFCatch
                     /\ UNCHANGED postIndex
                ELSE /\ SetLayout(L6)
                     /\ postIndex' = 1
                     /\ pdfPc' = "posts"
                     /\ UNCHANGED pdfError
       \/ /\ pdfError' = "header"
          /\ pdfPc' = GeneratePDFCatch
          /\ UNCHANGED << currentY, docPages, pageCause, pageTop, lastPaint, lastLink, fills,
                          postIndex >>
    /\ UNCHANGED << rendered, footers, quoteIndex, lineIndex, pdfOwner, exp >>
    /\ UNCHANGED scriptVars

\* addPosts, one iteration, up to and including addSinglePost's addPostHeader
AddPostHeader ==
    /\ pdfPc = "posts"
    /\ postIndex <= Len(threadPosts)
    /\ \/ \E fate \in LinkFates :
          LET L1 == IF NeedsPostBreak(Layout.currentY) THEN AddPage(Layout, "post")
                    ELSE Layout
              L2 == checkAndAddPageBreak(L1)
              L3 == AddSpace(L2, Mm(POST_PADDING))
              \* addPostHeader(post, backgroundColor, ...) paints the band without
              \* reading its backgroundColor parameter
              La == Text(addRoundedHeaderBackground(L3), "author")
              Lk == IF post.postLink THEN addTextWithLink(La, "postNumber", fate) ELSE La
              L4 == AddSpace(Lk, LINE_HEIGHT * 70)
              L5 == AddSpace(L4, LINE_HEIGHT * 80)
          IN  IF LinkThrown(Lk) /\ post.postLink
              THEN /\ SetLayout(Lk)
                   /\ pdfError' = "link"
                   /\ pdfPc' = GeneratePDFCatch
                   /\ UNCHANGED quoteIndex
              ELSE /\ SetLayout(L5)
                   /\ quoteIndex' = 1
                   /\ pdfPc' = "quotes"
                   /\ UNCHANGED pdfError
       \/ /\ pdfError' = "post"
          /\ pdfPc' = GeneratePDFCatch
          /\ UNCHANGED << currentY, docPages, pageCause, pageTop, lastPaint, lastLink, fills,
                          quoteIndex >>
    /\ UNCHANGED << rendered, footers, postIndex, lineIndex, pdfOwner, exp >>
    /\ UNCHANGED scriptVars

\* addPostQuotesWithPageBreaks, one quote: page check, "<author> wrote:"
AddQuoteHeader ==
    /\ pdfPc = "quotes"
    /\ IF quoteIndex <= Len(post.quotes)
       THEN LET L1 == IF NeedsQuoteBreak(Layout.currentY) THEN AddPage(Layout, "quote")
                      ELSE Layout
                L2 == AddSpace(Text(L1, "quoteHeader"), Mm(LINE_HEIGHT))
                L3 == AddSpace(L2, LINE_HEIGHT * 30)
            IN  /\ SetLayout(L3)
                /\ pdfPc' = "quoteLines"
       ELSE /\ pdfPc' = "content"
            /\ UNCHANGED << currentY, docPages, pageCause, pageTop, lastPaint, lastLink, fills >>
    /\ lineIndex' = 1
    /\ UNCHANGED << rendered, footers, postIndex, quoteIndex, pdfOwner, pdfError, exp >>
    /\ UNCHANGED scriptVars

\* addIndentedTextLines(quoteLines, 5), one line; after the last one
\* addSpace(LINE_HEIGHT * 0.5)
AddQuoteLine ==
    /\ pdfPc = "quoteLines"
    /\ LET L1 == AddSpace(Text(Layout, "quoteLine"), Mm(LINE_HEIGHT))
       IN  IF lineIndex < post.quotes[quoteIndex]
           THEN /\ SetLayout(L1)
                /\ lineIndex' = lineIndex + 1
                /\ UNCHANGED << pdfPc, quoteIndex >>
           ELSE /\ SetLayout(AddSpace(L1, LINE_HEIGHT * 50))
                /\ quoteIndex' = quoteIndex + 1
                /\ pdfPc' = "quotes"
                /\ UNCHANGED lineIndex
    /\ UNCHANGED << rendered, footers, postIndex, pdfOwner, pdfError, exp >>
    /\ UNCHANGED scriptVars

\* addPostContentWithPageBreaks, one wrapped line (none when content is empty)
AddContentLine ==
    /\ pdfPc = "content"
    /\ IF post.content = 0
       THEN /\ pdfPc' = "attachments"
            /\ UNCHANGED << currentY, docPages, pageCause, pageTop, lastPaint, lastLink, fills, lineIndex >>
       ELSE LET L1 == IF NeedsContentBreak(Layout.currentY) THEN ContinuationPage(Layout)
                      ELSE Layout
                \* the lines of splitTextToSize(content, ...), content as scraped
                L2 == AddSpace(TextOf(L1, "contentLine", post.glyphs), ContentLineHeight)
            IN  /\ SetLayout(L2)
                /\ IF lineIndex < post.content
                   THEN lineIndex' = lineIndex + 1 /\ UNCHANGED pdfPc
                   ELSE pdfPc' = "attachments" /\ UNCHANGED lineIndex
    /\ UNCHANGED << rendered, footers, postIndex, quoteIndex, pdfOwner, pdfError, exp >>
    /\ UNCHANGED scriptVars

\* addPostAttachmentsWithPageBreaks up to the "Attachments:" label
AddAttachmentsLabel ==
    /\ pdfPc = "attachments"
    /\ IF Len(post.attachments) > 0
       THEN LET L1 == IF NeedsAttachmentsBreak(Layout.currentY, Len(post.attachments))
                      THEN AddPage(Layout, "attachments") ELSE Layout
                L2 == AddSpace(L1, LINE_HEIGHT * 50)
                L3 == AddSpace(Text(L2, "attachmentsLabel"), Mm(LINE_HEIGHT))
            IN  /\ SetLayout(L3)
                /\ pdfPc' = "attachmentLines"
       ELSE /\ pdfPc' = "postEnd"
            /\ UNCHANGED << currentY, docPages, pageCause, pageTop, lastPaint, lastLink, fills >>
    /\ lineIndex' = 1
    /\ UNCHANGED << rendered, footers, postIndex, quoteIndex, pdfOwner, pdfError, exp >>
    /\ UNCHANGED scriptVars

\* the loop over the attachments, one attachment
AddAttachmentLine ==
    /\ pdfPc = "attachmentLines"
    /\ \E fate \in LinkFates :
         LET L1 == AddSpace(Layout, LINE_HEIGHT * 30)
             Lk == addTextWithLink(L1, "attachment", fate)
             L2 == AddSpace(Lk, Mm(LINE_HEIGHT))
         IN  IF LinkThrown(Lk)
             THEN /\ SetLayout(Lk)
                  /\ pdfError' = "link"
                  /\ pdfPc' = GeneratePDFCatch
                  /\ UNCHANGED lineIndex
             ELSE /\ SetLayout(L2)
                  /\ UNCHANGED pdfError
                  /\ IF lineIndex < Len(post.attachments)
                     THEN lineIndex' = lineIndex + 1 /\ UNCHANGED pdfPc
                     ELSE pdfPc' = "postEnd" /\ UNCHANGED lineIndex
    /\ UNCHANGED << rendered, footers, postIndex, quoteIndex, pdfOwner, exp >>
    /\ UNCHANGED scriptVars

\* the end of addSinglePost: bottom padding, space between posts; i++
EndPost ==
    /\ pdfPc = "postEnd"
    /\ SetLayout(AddSpace(AddSpace(Layout, Mm(POST_PADDING)), Mm(POST_MARGIN_BOTTOM)))
    /\ rendered' = rendered + 1
    /\ postIndex' = postIndex + 1
    /\ pdfPc' = "posts"
    /\ UNCHANGED << footers, quoteIndex, lineIndex, pdfOwner, pdfError, exp >>
    /\ UNCHANGED scriptVars

\* const footerY = this.pageHeight - PDF_CONSTANTS.MARGIN - 10
footerY == Mm(pageHeight) - Mm(MARGIN) - Mm(10)

\* FooterStart with a fault: a cursor below footerY starts a new page
FooterStart_Break(L) ==
    [ (IF L.currentY > footerY THEN AddPage(L, "footer") ELSE L) EXCEPT !.currentY = footerY ]

\* addFooter: this.currentY = footerY, on the current page
FooterStart(L) == [ L EXCEPT !.currentY = footerY ]

\* addFooter on the current page, then this.doc.output("blob")
AddFooter ==
    /\ pdfPc = "posts"
    /\ postIndex > Len(threadPosts)
    /\ LET L1 == FooterStart(Layout)
           L2 == AddSpace(Text(L1, "footer"), LINE_HEIGHT * 80)
           L3 == Text(L2, "joke")
       IN  SetLayout(L3)
    /\ footers' = footers + 1
    /\ pdfPc' = "resolved"
    /\ UNCHANGED << rendered, postIndex, quoteIndex, lineIndex, pdfOwner, pdfError, exp >>
    /\ UNCHANGED scriptVars

(***************************************************************************)
(* handleExportClick after generatePDF has settled.                        *)
(***************************************************************************)
\* chrome.runtime.sendMessage({ action: ... })
Send(x, action) == [ x EXCEPT !.sent = Append(@, action) ]

\* what an awaited message comes to: { success: true }, another answer
\* (no answer included), or a rejected promise
Answers == {"success", "failure", "reject"}

PersistenceActions == {"storePDF", "addExportToHistory", "storeExport", "storePdfBlob"}

\* PersistAnswered with a fault: a failed persistence message is sent again
PersistAnswered_Retry(x, r) ==
    IF r = "success" THEN [ x EXCEPT !.persist = r ]
    ELSE Send([ x EXCEPT !.persist = r ], x.sent[Len(x.sent)])

\* the inner try/catch around the awaited persistence message: the answer is
\* looked at, a failure is logged
PersistAnswered(x, r) == [ x EXCEPT !.persist = r ]

\* generatePDF settled.  Resolved: the download is triggered and the first
\* persistence message is sent and awaited.  Rejected: the catch block
ExportAfterPDF(e) ==
    /\ pdfPc \in {"resolved", "rejected"}
    /\ pdfOwner = e
    /\ exp[e].pc = "pdf"
    /\ pdfPc' = "idle"
    /\ IF pdfPc = "resolved"
       THEN LET x == [ exp[e] EXCEPT !.pdfBlob = "blob", !.downloads = @ + 1 ]
            IN  /\ exp' = [exp EXCEPT ![e] =
                      IF variant = "content.js"
                      THEN [ Send(x, "storePDF") EXCEPT !.pc = "storePDF" ]
                      ELSE [ Send(x, "storeExport") EXCEPT !.pc = "storeExport" ]]
                /\ UNCHANGED << isExporting, buttonState, timers >>
       ELSE LET x == Send([ exp[e] EXCEPT !.pdfBlob = "rejected", !.outcome = "error" ],
                          "exportError")
            IN  /\ buttonState' = ButtonAfter("error")
                /\ timers' = TimersAfter("error")
                /\ IF variant = "content.js"
                   THEN /\ exp' = [exp EXCEPT ![e] = [ x EXCEPT !.pc = "done" ]]
                        /\ isExporting' = FALSE
                   ELSE /\ exp' = [exp EXCEPT ![e] = [ x EXCEPT !.pc = "exportError" ]]
                        /\ UNCHANGED isExporting
    /\ UNCHANGED << emojiMap, call, storeVars, variant, isWoltLabThread, forum, titleLines, isExtensionEnabled, exportButton,
                    lastCall, initPc, retryCount, pdfOwner, docPages, currentY >>
    /\ pdfError' = "none"
    /\ postIndex' = 1
    /\ quoteIndex' = 1
    /\ lineIndex' = 1
    /\ rendered' = 0
    /\ footers' = 0
    /\ pageCause' = "init"
    /\ pageTop' = "none"
    /\ lastPaint' = NoPaint
    /\ lastLink' = NoLink
    /\ fills' = << >>

\* content.js: the sendMessage call outside the inner try/catch that throws
\* (the extension context is gone, the message cannot be serialized), if any
SendThrows == {"none", "addExportToHistory", "exportComplete", "updateExportStats"}

\* content.js, the rest of the try block after the inner try/catch: the
\* un-awaited sendMessage calls in order, updateButtonState("success") between
\* them.  A call that throws ends the block in the catch block:
\* updateButtonState("error") and the "exportError" message
TryTail(x, thrown) ==
    LET x1 == Send(x, "addExportToHistory")
        x2 == Send(x1, "exportComplete")
        x3 == Send(x2, "updateExportStats")
        caught(y) == Send([ y EXCEPT !.outcome = "error" ], "exportError")
    IN  CASE thrown = "addExportToHistory" -> caught([ x1 EXCEPT !.persist = "throw" ])
          [] thrown = "exportComplete"     -> caught(x2)
          [] thrown = "updateExportStats"  -> caught(x3)
          [] OTHER                         -> [ x3 EXCEPT !.outcome = "success" ]

\* content.js: the "storePDF" message is answered (or reading the blob or
\* sending failed); the rest of the try block, the catch block if a call
\* throws, and the finally block run
StorePDFSettle(e) ==
    /\ ~Busy
    /\ variant = "content.js"
    /\ exp[e].pc = "storePDF"
    /\ \E r \in Answers, thrown \in SendThrows :
         /\ exp' = [exp EXCEPT ![e] =
                      [ TryTail(PersistAnswered(exp[e], r), thrown) EXCEPT !.pc = "done" ]]
         /\ CASE thrown = "none" ->
                   /\ buttonState' = ButtonAfter("success")
                   /\ timers' = TimersAfter("success")
              [] thrown = "addExportToHistory" ->
                   /\ buttonState' = ButtonAfter("error")
                   /\ timers' = TimersAfter("error")
              [] OTHER ->
                   /\ buttonState' = ButtonAfter("error")
                   /\ timers' = IF exportButton THEN timers + 2 ELSE timers
    /\ isExporting' = FALSE
    /\ UNCHANGED << emojiMap, call, storeVars, variant, isWoltLabThread, forum, titleLines, isExtensionEnabled, exportButton,
                    lastCall, initPc, retryCount >>
    /\ UNCHANGED pdfVars

\* part_000: updateButtonState("success"), then "exportComplete" is sent and awaited
SuccessTail(x) ==
    [ Send([ x EXCEPT !.outcome = "success" ], "exportComplete")
        EXCEPT !.pc = "exportComplete" ]

\* part_000: the "storeExport" message is answered; on success storePdfBlob
\* sends "storePdfBlob" and awaits it
StoreExportSettle(e) ==
    /\ ~Busy
    /\ variant = "part_000"
    /\ exp[e].pc = "storeExport"
    /\ \E r \in Answers :
         LET x == PersistAnswered(exp[e], r)
         IN  IF r = "success"
             THEN /\ exp' = [exp EXCEPT ![e] =
                               [ Send(x, "storePdfBlob") EXCEPT !.pc = "storePdfBlob" ]]
                  /\ UNCHANGED << buttonState, timers >>
             ELSE /\ exp' = [exp EXCEPT ![e] = SuccessTail(x)]
                  /\ buttonState' = ButtonAfter("success")
                  /\ timers' = TimersAfter("success")
    /\ UNCHANGED << emojiMap, call, storeVars, variant, isWoltLabThread, forum, titleLines, isExporting, isExtensionEnabled,
                    exportButton, lastCall, initPc, retryCount >>
    /\ UNCHANGED pdfVars

\* part_000: storePdfBlob's message is answered
StorePdfBlobSettle(e) ==
    /\ ~Busy
    /\ variant = "part_000"
    /\ exp[e].pc = "storePdfBlob"
    /\ \E r \in Answers :
         exp' = [exp EXCEPT ![e] = SuccessTail(PersistAnswered(exp[e], r))]
    /\ buttonState' = ButtonAfter("success")
    /\ timers' = TimersAfter("success")
    /\ UNCHANGED << emojiMap, call, storeVars, variant, isWoltLabThread, forum, titleLines, isExporting, isExtensionEnabled,
                    exportButton, lastCall, initPc, retryCount >>
    /\ UNCHANGED pdfVars

\* part_000: "exportComplete" settled; "updateExportStats" is sent and awaited
ExportCompleteSettle(e) ==
    /\ ~Busy
    /\ exp[e].pc = "exportComplete"
    /\ exp' = [exp EXCEPT ![e] =
                 [ Send(exp[e], "updateExportStats") EXCEPT !.pc = "updateExportStats" ]]
    /\ UNCHANGED scriptVars
    /\ UNCHANGED pdfVars

\* ExportFinally with a fault: the finally block leaves isExporting as it is
ExportFinally_KeepFlag(e) ==
    /\ ~Busy
    /\ exp[e].pc \in {"updateExportStats", "exportError"}
    /\ exp' = [exp EXCEPT ![e].pc = "done"]
    /\ UNCHANGED << emojiMap, call, storeVars, variant, isWoltLabThread, forum, titleLines, isExporting, isExtensionEnabled,
                    exportButton, buttonState, timers, lastCall, initPc, retryCount >>
    /\ UNCHANGED pdfVars

\* part_000: the last awaited message of the try block or of the catch block
\* settled; finally { isExporting = false; ... }
ExportFinally(e) ==
    /\ ~Busy
    /\ exp[e].pc \in {"updateExportStats", "exportError"}
    /\ exp' = [exp EXCEPT ![e].pc = "done"]
    /\ isExporting' = FALSE
    /\ UNCHANGED << emojiMap, call, storeVars, variant, isWoltLabThread, forum, titleLines, isExtensionEnabled, exportButton,
                    buttonState, timers, lastCall, initPc, retryCount >>
    /\ UNCHANGED pdfVars

\* handleExportClick has returned: the frame is gone
ExportReturn(e) ==
    /\ exp[e].pc = "done"
    /\ exp' = [exp EXCEPT ![e] = NoExport]
    /\ UNCHANGED scriptVars
    /\ UNCHANGED pdfVars

(***************************************************************************)
(* init: listeners, then the storage wait.                                 *)
(***************************************************************************)
\* what chrome.storage.*.get(["extensionEnabled"]) comes to
StorageResults == {"true", "false", "undefined", "throw"}

\* init up to its first await: the listeners are added, the first read is issued
InitStart ==
    /\ ~Busy
    /\ initPc = "start"
    /\ initPc' = "read"
    /\ UNCHANGED << emojiMap, call, storeVars, variant, isWoltLabThread, forum, titleLines, isExporting, isExtensionEnabled,
                    exportButton, buttonState, timers, exp, lastCall, retryCount >>
    /\ UNCHANGED pdfVars

\* StorageRead with a fault: the wait goes on while retryCount <= maxRetries
StorageRead_OneMore ==
    /\ ~Busy
    /\ initPc = "read"
    /\ \E r \in StorageResults :
         LET defined == r \in {"true", "false"}
             count   == IF defined THEN retryCount ELSE retryCount + 1
             isEnabled == IF count > maxRetries THEN FALSE ELSE r = "true"
         IN  /\ retryCount' = count
             /\ IF defined \/ count > maxRetries
                THEN /\ initPc' = "done"
                     /\ IF isEnabled /\ isWoltLabThread
                        THEN /\ exportButton' = TRUE
                             /\ buttonState' = IF exportButton THEN buttonState ELSE "ready"
                        ELSE UNCHANGED << exportButton, buttonState >>
                ELSE UNCHANGED << initPc, exportButton, buttonState >>
    /\ UNCHANGED << emojiMap, call, storeVars, variant, isWoltLabThread, forum, titleLines, isExporting, isExtensionEnabled,
                    timers, exp, lastCall >>
    /\ UNCHANGED pdfVars

\* a read settles: a defined value ends the wait, otherwise retryCount++ and,
\* after the 100 ms pause, the next read; then the initial state is handled
StorageRead ==
    /\ ~Busy
    /\ initPc = "read"
    /\ \E r \in StorageResults :
         LET defined == r \in {"true", "false"}
             count   == IF defined THEN retryCount ELSE retryCount + 1
             isEnabled == IF count >= maxRetries THEN FALSE ELSE r = "true"
         IN  /\ retryCount' = count
             /\ IF defined \/ count >= maxRetries
                THEN /\ initPc' = "done"
                     /\ IF isEnabled /\ isWoltLabThread
                        THEN /\ exportButton' = TRUE
                             /\ buttonState' = IF exportButton THEN buttonState ELSE "ready"
                        ELSE UNCHANGED << exportButton, buttonState >>
                ELSE UNCHANGED << initPc, exportButton, buttonState >>
    /\ UNCHANGED << emojiMap, call, storeVars, variant, isWoltLabThread, forum, titleLines, isExporting, isExtensionEnabled,
                    timers, exp, lastCall >>
    /\ UNCHANGED pdfVars

isInitialized == initPc = "done"

(***************************************************************************)
(* Inputs.                                                                 *)
(***************************************************************************)
Variants == {"content.js", "part_000"}

\* the storage side: activation slots of its async functions
JobIds == {1, 2}

\* a free slot.  fn: the function; pc: the await it is suspended at; id: the
\* export it works for; pdfStored, hasBlob: exportData.pdfStored, and whether
\* exportData.pdfBlob is set; history: its local
\* copy of exportHistory; index, usage, updatedUsage, removed: locals of the
\* quota cleanup (removed counts its splice calls); response: what was answered
NoJob ==
    [ fn |-> "none", pc |-> "none", id |-> 0, pdfStored |-> FALSE, hasBlob |-> FALSE,
      history |-> << >>,
      index |-> 0, usage |-> 0, updatedUsage |-> 0, removed |-> 0, response |-> "none" ]

\* nothing stored yet, no storage function running
EmptyStorage == [ exportHistory |-> << >>, pdfs |-> {}, other |-> 0 ]

StorageIdle ==
    /\ storage = EmptyStorage
    /\ jobs = [ j \in JobIds |-> NoJob ]

\* no helper function is being called
NoFunctionCall == [ fn |-> "none", arg |-> << >>, result |-> << >> ]

NoCall == [ via |-> "none", whileExporting |-> FALSE, initialized |-> FALSE, started |-> FALSE,
            response |-> "none" ]

\* the generator as constructed: doc = null, currentY = MARGIN
InitGenerator ==
    /\ pdfPc = "idle"
    /\ pdfOwner = 1
    /\ pdfError = "none"
    /\ docPages = 0
    /\ currentY = Mm(MARGIN)
    /\ postIndex = 1
    /\ quoteIndex = 1
    /\ lineIndex = 1
    /\ rendered = 0
    /\ footers = 0
    /\ pageCause = "init"
    /\ pageTop = "none"
    /\ lastPaint = NoPaint
    /\ lastLink = NoLink
    /\ fills = << >>

\* a page with one ordinary post, and one whose post has no author element
\* but a quote, a body and an attachment
PageA == << Element("alice", 1, << >>, << >>) >>
PageB == << Element("", 2, << 1 >>, << "file" >>) >>

Forums == { << PageA >>, << PageA, PageB >> }

\* the state after the content script's top level has run
Init ==
    /\ emojiMap = "null"
    /\ call = NoFunctionCall
    /\ StorageIdle
    /\ variant \in Variants
    /\ isWoltLabThread \in BOOLEAN
    /\ forum \in Forums
    /\ titleLines = 1
    /\ isExporting = FALSE
    /\ isExtensionEnabled = TRUE
    /\ exportButton = FALSE
    /\ buttonState = "ready"
    /\ timers = 0
    /\ exp = [ e \in Slots |-> NoExport ]
    /\ lastCall = NoCall
    /\ initPc = "start"
    /\ retryCount = 0
    /\ InitGenerator

\* a thread page after the content script's top level has run, nothing started
PageLoaded ==
    /\ variant = "content.js"
    /\ isWoltLabThread = TRUE
    /\ forum = << PageA >>
    /\ titleLines = 1
    /\ isExporting = FALSE
    /\ isExtensionEnabled = TRUE
    /\ exportButton = FALSE
    /\ buttonState = "ready"
    /\ timers = 0
    /\ exp = [ e \in Slots |-> NoExport ]
    /\ lastCall = NoCall
    /\ initPc = "start"
    /\ retryCount = 0
    /\ InitGenerator

\* window.emojiMapper = new EmojiMapper(): emojiMap is null, the load pending
InitMapper ==
    /\ emojiMap = "null"
    /\ call = NoFunctionCall
    /\ StorageIdle
    /\ PageLoaded

\* the emoji mapper and its callers
SpecMapper == InitMapper /\ [][LoadEmojiData \/ ProcessText]_vars

\* cleanupWhitespace is called with a plain text
InitCleanup ==
    /\ emojiMap = "null"
    /\ call \in { Called("cleanupWhitespace", text) : text \in PlainTexts }
    /\ StorageIdle
    /\ PageLoaded

SpecCleanup == InitCleanup /\ [][CleanupWhitespace]_vars

\* getPostContent calls parseAndFormatContent with a cleaned content element
InitFormat ==
    /\ emojiMap = "null"
    /\ call \in { Called("parseAndFormatContent", element) : element \in ContentElements }
    /\ StorageIdle
    /\ PageLoaded

SpecFormat == InitFormat /\ [][ParseAndFormatContent]_vars

\* extractPost calls getPostNumber with a message element
InitPostNumber ==
    /\ emojiMap = "null"
    /\ call \in { Called("getPostNumber", link) : link \in ShareLinks }
    /\ StorageIdle
    /\ PageLoaded

SpecPostNumber == InitPostNumber /\ [][GetPostNumber]_vars

\* getPostAttachments calls getAttachmentType with the href of an attachment
InitAttachmentType ==
    /\ emojiMap = "null"
    /\ call \in { Called("getAttachmentType", attachment) : attachment \in AttachmentUrls }
    /\ StorageIdle
    /\ PageLoaded

SpecAttachmentType == InitAttachmentType /\ [][GetAttachmentType]_vars

\* ---- the storage side: chrome.storage.local and the cleanup manager ----

\* CleanupManager options
quotaThresholdPercent == 80

minRecentKeep == 20

\* chrome.storage.local.QUOTA_BYTES, counted in the bytes of one history entry
QUOTA_BYTES == 30

\* the longest stored history and the most bytes under other keys at the start
MaxHistory == 24

MaxOther == 5

\* a metadata entry of exportHistory
Entry(id, pdfStored) == [ id |-> id, pdfStored |-> pdfStored ]

\* a stored history of n exports, newest first
Stored(n) == [ i \in 1 .. n |-> Entry(n + 1 - i, FALSE) ]

\* chrome.storage.local.getBytesInUse()
getBytesInUse == storage.other + Len(storage.exportHistory)

\* usage is at or above percent of the quota: (usage / quota) * 100 >= percent
AtOrAbove(usage, percent) == usage * 100 >= percent * QUOTA_BYTES

\* history.splice(index, 1) with the 0-based index
splice(history, index) ==
    [ i \in 1 .. Len(history) - 1 |-> IF i <= index THEN history[i] ELSE history[i + 1] ]

Free(j) == jobs[j].pc \in {"none", "done"}

\* cleanupByQuota: the metadata cleanup runs when the usage is at the threshold
CleanupByQuota(j) ==
    /\ Free(j)
    /\ AtOrAbove(getBytesInUse, quotaThresholdPercent)
    /\ jobs' = [ jobs EXCEPT ![j] = [ NoJob EXCEPT
                    !.fn = "_cleanupChromeMetadataByQuota", !.pc = "getExportHistory" ] ]
    /\ UNCHANGED << storage, emojiMap, call, contentVars, exp, pdfVars >>

\* const history = await getExportHistory(); at most minRecentKeep entries: return
GetExportHistory(j) ==
    /\ jobs[j].fn = "_cleanupChromeMetadataByQuota"
    /\ jobs[j].pc = "getExportHistory"
    /\ jobs' = [ jobs EXCEPT ![j] = [ @ EXCEPT
                    !.history = storage.exportHistory,
                    !.pc = IF Len(storage.exportHistory) <= minRecentKeep
                           THEN "done" ELSE "getBytesInUse" ] ]
    /\ UNCHANGED << storage, emojiMap, call, contentVars, exp, pdfVars >>

\* the head of the while loop and its synchronous part: the test reads the const
\* usage, then the oldest entry is spliced off and the index stepped down
WhileOverQuota(job) ==
    IF job.index >= minRecentKeep /\ AtOrAbove(job.usage, quotaThresholdPercent)
    THEN [ job EXCEPT !.history = splice(@, job.index), !.index = @ - 1,
                      !.removed = @ + 1, !.pc = "set" ]
    ELSE [ job EXCEPT !.pc = "done" ]

\* const usage = await getBytesInUse(); index = history.length - 1; enter the loop
GetBytesInUse(j) ==
    /\ jobs[j].fn = "_cleanupChromeMetadataByQuota"
    /\ jobs[j].pc = "getBytesInUse"
    /\ jobs' = [ jobs EXCEPT ![j] = WhileOverQuota([ @ EXCEPT
                    !.usage = getBytesInUse, !.index = Len(jobs[j].history) - 1 ]) ]
    /\ UNCHANGED << storage, emojiMap, call, contentVars, exp, pdfVars >>

\* await chrome.storage.local.set({ exportHistory: history })
SetExportHistory(j) ==
    /\ jobs[j].fn = "_cleanupChromeMetadataByQuota"
    /\ jobs[j].pc = "set"
    /\ storage' = [ storage EXCEPT !.exportHistory = jobs[j].history ]
    /\ jobs' = [ jobs EXCEPT ![j] = [ @ EXCEPT !.pc = "updatedUsage" ] ]
    /\ UNCHANGED << emojiMap, call, contentVars, exp, pdfVars >>

\* const updatedUsage = await getBytesInUse(); break when it equals usage,
\* otherwise back to the head of the loop
UpdatedUsage(j) ==
    /\ jobs[j].fn = "_cleanupChromeMetadataByQuota"
    /\ jobs[j].pc = "updatedUsage"
    /\ jobs' = [ jobs EXCEPT ![j] =
                    IF getBytesInUse = @.usage
                    THEN [ @ EXCEPT !.updatedUsage = getBytesInUse, !.pc = "done" ]
                    ELSE WhileOverQuota([ @ EXCEPT !.updatedUsage = getBytesInUse ]) ]
    /\ UNCHANGED << storage, emojiMap, call, contentVars, exp, pdfVars >>

\* another key of chrome.storage.local grows while a cleanup is suspended
OtherKeyWritten ==
    /\ storage.other < MaxOther
    /\ storage' = [ storage EXCEPT !.other = @ + 1 ]
    /\ UNCHANGED << jobs, emojiMap, call, contentVars, exp, pdfVars >>

\* the storage holds a history of up to MaxHistory exports and other keys
InitQuota ==
    /\ emojiMap = "null"
    /\ call = NoFunctionCall
    /\ storage \in { [ exportHistory |-> Stored(n), pdfs |-> {}, other |-> o ] :
                        n \in 0 .. MaxHistory, o \in 0 .. MaxOther }
    /\ jobs = [ j \in JobIds |-> NoJob ]
    /\ PageLoaded

\* the quota cleanup of the metadata, up to two runs at a time
SpecQuota ==
    InitQuota /\ [][\/ \E j \in JobIds :
                        \/ CleanupByQuota(j)
                        \/ GetExportHistory(j)
                        \/ GetBytesInUse(j)
                        \/ SetExportHistory(j)
                        \/ UpdatedUsage(j)
                    \/ OtherKeyWritten]_vars

\* ---- background.js: the export history ----

\* exports whose metadata is sent to the background script
MaxRequests == 4

\* the id of the next export handled in slot j: distinct for every request
NextExportId(j) == IF jobs[j].id = 0 THEN j ELSE jobs[j].id + Cardinality(JobIds)

\* (dataSize / quota) * 100 < 95, the size counted in entries
UnderLimit(history) == Len(history) * 100 < 95 * QUOTA_BYTES

\* smartCleanup on metadata: no entry carries pdfBase64, so all are "without
\* PDF" and all but the first of them, the new export, are removed
smartCleanup(history) == << history[1] >>

\* onMessage, "addExportToHistory": manageExportHistory(request.exportData) up
\* to its first await, the read of exportHistory
AddExportToHistory(j) ==
    /\ Free(j)
    /\ NextExportId(j) <= MaxRequests
    /\ \E pdfStored \in BOOLEAN :
         jobs' = [ jobs EXCEPT ![j] = [ NoJob EXCEPT
                     !.fn = "manageExportHistory", !.pc = "get",
                     !.id = NextExportId(j), !.pdfStored = pdfStored ] ]
    /\ UNCHANGED << storage, emojiMap, call, contentVars, exp, pdfVars >>

\* the read settles: exportHistory.unshift(newExport), then trySaveWithPdf up to
\* its await of chrome.storage.local.set; metadata that cannot be made to fit
\* throws, and the catch of manageExportHistory logs it
TrySaveWithPdf(j) ==
    /\ jobs[j].fn = "manageExportHistory"
    /\ jobs[j].pc = "get"
    /\ LET exportHistory == << Entry(jobs[j].id, jobs[j].pdfStored) >> \o storage.exportHistory
           cleanedHistory == smartCleanup(exportHistory)
       IN  jobs' = [ jobs EXCEPT ![j] =
                       IF UnderLimit(exportHistory)
                       THEN [ @ EXCEPT !.history = exportHistory, !.pc = "set" ]
                       ELSE IF UnderLimit(cleanedHistory)
                            THEN [ @ EXCEPT !.history = cleanedHistory, !.pc = "set" ]
                            ELSE [ @ EXCEPT !.pc = "done", !.response = "success" ] ]
    /\ UNCHANGED << storage, emojiMap, call, contentVars, exp, pdfVars >>

\* chrome.storage.local.set({ exportHistory }) settles: the stored list is
\* replaced by the handler's copy, or the rejection is caught and logged by
\* manageExportHistory, which then returns normally
TrySaveSettle(j) ==
    /\ jobs[j].fn = "manageExportHistory"
    /\ jobs[j].pc = "set"
    /\ \/ /\ storage' = [ storage EXCEPT !.exportHistory = jobs[j].history ]
          /\ jobs' = [ jobs EXCEPT ![j] = [ @ EXCEPT !.pc = "verify" ] ]
       \/ /\ jobs' = [ jobs EXCEPT ![j] = [ @ EXCEPT !.pc = "done", !.response = "success" ] ]
          /\ UNCHANGED storage
    /\ UNCHANGED << emojiMap, call, contentVars, exp, pdfVars >>

\* the verification read and checkStorageQuota settle; manageExportHistory
\* resolves and .then(() => sendResponse({ success: true })) runs
HistoryManaged(j) ==
    /\ jobs[j].fn = "manageExportHistory"
    /\ jobs[j].pc = "verify"
    /\ jobs' = [ jobs EXCEPT ![j] = [ @ EXCEPT !.pc = "done", !.response = "success" ] ]
    /\ UNCHANGED << storage, emojiMap, call, contentVars, exp, pdfVars >>

\* the background script with an empty history
InitHistory ==
    /\ emojiMap = "null"
    /\ call = NoFunctionCall
    /\ StorageIdle
    /\ PageLoaded

\* up to two addExportToHistory requests being handled at a time
SpecHistory ==
    InitHistory /\ [][\E j \in JobIds :
                        \/ AddExportToHistory(j)
                        \/ TrySaveWithPdf(j)
                        \/ TrySaveSettle(j)
                        \/ HistoryManaged(j)]_vars

\* ---- StorageManager.storeExport: metadata, then the PDF ----

\* what an awaited storage operation comes to
Settlements == {"resolved", "rejected"}

\* the catch of storeExport: return { success: false, error }
StoreExportFailed(job) == [ job EXCEPT !.pc = "done", !.response = "failure" ]

\* storeExport(exportData) up to the first await of storeExportMetadata, the
\* read of exportHistory
StoreExport(j) ==
    /\ Free(j)
    /\ NextExportId(j) <= MaxRequests
    /\ \E hasBlob \in BOOLEAN :
         jobs' = [ jobs EXCEPT ![j] = [ NoJob EXCEPT
                     !.fn = "storeExport", !.pc = "get",
                     !.id = NextExportId(j), !.hasBlob = hasBlob ] ]
    /\ UNCHANGED << storage, emojiMap, call, contentVars, exp, pdfVars >>

\* storeExportMetadata: the read settles; the entry, marked pdfStored: true,
\* is put first and the write is issued
StoreExportMetadata(j) ==
    /\ jobs[j].fn = "storeExport"
    /\ jobs[j].pc = "get"
    /\ \E settled \in Settlements :
         jobs' = [ jobs EXCEPT ![j] =
                     IF settled = "resolved"
                     THEN [ @ EXCEPT
                              !.history = << Entry(jobs[j].id, TRUE) >> \o storage.exportHistory,
                              !.pc = "set" ]
                     ELSE StoreExportFailed(@) ]
    /\ UNCHANGED << storage, emojiMap, call, contentVars, exp, pdfVars >>

\* the write of the metadata settles; then storePdf is called if a blob was
\* passed, otherwise the logs, the statistics and the cleanup are awaited
MetadataStored(j) ==
    /\ jobs[j].fn = "storeExport"
    /\ jobs[j].pc = "set"
    /\ \E settled \in Settlements :
         IF settled = "resolved"
         THEN /\ storage' = [ storage EXCEPT !.exportHistory = jobs[j].history ]
              /\ jobs' = [ jobs EXCEPT ![j] =
                             [ @ EXCEPT !.pc = IF jobs[j].hasBlob THEN "storePdf" ELSE "storeLogs" ] ]
         ELSE /\ jobs' = [ jobs EXCEPT ![j] = StoreExportFailed(@) ]
              /\ UNCHANGED storage
    /\ UNCHANGED << emojiMap, call, contentVars, exp, pdfVars >>

\* indexedDB.storePdf settles: the record is in 'pdfs', or the transaction's
\* error rejects the promise and storeExport's catch returns the failure
StorePdf(j) ==
    /\ jobs[j].fn = "storeExport"
    /\ jobs[j].pc = "storePdf"
    /\ \E settled \in Settlements :
         IF settled = "resolved"
         THEN /\ storage' = [ storage EXCEPT !.pdfs = @ \cup {jobs[j].id} ]
              /\ jobs' = [ jobs EXCEPT ![j] = [ @ EXCEPT !.pc = "storeLogs" ] ]
         ELSE /\ jobs' = [ jobs EXCEPT ![j] = StoreExportFailed(@) ]
              /\ UNCHANGED storage
    /\ UNCHANGED << emojiMap, call, contentVars, exp, pdfVars >>

\* storeLogs, updateStorageStats and checkAndCleanup settle: success is
\* returned, or the first rejection is caught
StoreExportReturn(j) ==
    /\ jobs[j].fn = "storeExport"
    /\ jobs[j].pc = "storeLogs"
    /\ \E settled \in Settlements :
         jobs' = [ jobs EXCEPT ![j] =
                     IF settled = "resolved"
                     THEN [ @ EXCEPT !.pc = "done", !.response = "success" ]
                     ELSE StoreExportFailed(@) ]
    /\ UNCHANGED << storage, emojiMap, call, contentVars, exp, pdfVars >>

\* the storage manager, initialized, with nothing stored
InitStore ==
    /\ emojiMap = "null"
    /\ call = NoFunctionCall
    /\ StorageIdle
    /\ PageLoaded

\* up to two storeExport calls at a time
SpecStore ==
    InitStore /\ [][\E j \in JobIds :
                      \/ StoreExport(j)
                      \/ StoreExportMetadata(j)
                      \/ MetadataStored(j)
                      \/ StorePdf(j)
                      \/ StoreExportReturn(j)]_vars

GeneratePDF ==
    \/ InitializePDF
    \/ AddThreadHeader
    \/ AddPostHeader
    \/ AddQuoteHeader
    \/ AddQuoteLine
    \/ AddContentLine
    \/ AddAttachmentsLabel
    \/ AddAttachmentLine
    \/ EndPost
    \/ AddFooter

Next ==
    \/ InitStart
    \/ StorageRead
    \/ ClickExportButton
    \/ MessageExportThread
    \/ \E enabled \in BOOLEAN : HandleToggleExtension(enabled)
    \/ ButtonResetTimer
    \/ \E e \in Slots : ScrapePageSettle(e)
    \/ GeneratePDF
    \/ \E e \in Slots : ExportAfterPDF(e)
    \/ \E e \in Slots : StorePDFSettle(e)
    \/ \E e \in Slots : StoreExportSettle(e)
    \/ \E e \in Slots : StorePdfBlobSettle(e)
    \/ \E e \in Slots : ExportCompleteSettle(e)
    \/ \E e \in Slots : ExportFinally(e)
    \/ \E e \in Slots : ExportReturn(e)

Spec == Init /\ [][Next]_vars

\* init and the toggles that may arrive during its storage wait; every read
\* settles and init is resumed
FairInit ==
    /\ Init
    /\ [][\/ InitStart
          \/ StorageRead
          \/ \E enabled \in BOOLEAN : HandleToggleExtension(enabled)]_vars
    /\ WF_vars(InitStart)
    /\ WF_vars(StorageRead)

\* a thread page after init has found the extension enabled: the button is there
InitExport ==
    /\ emojiMap = "null"
    /\ call = NoFunctionCall
    /\ StorageIdle
    /\ variant \in Variants
    /\ isWoltLabThread = TRUE
    /\ forum \in Forums
    /\ titleLines = 1
    /\ isExporting = FALSE
    /\ isExtensionEnabled = TRUE
    /\ exportButton = TRUE
    /\ buttonState = "ready"
    /\ timers = 0
    /\ exp = [ e \in Slots |-> NoExport ]
    /\ lastCall = NoCall
    /\ initPc = "done"
    /\ retryCount = 0
    /\ InitGenerator

\* the exports of an initialized page: clicks, messages, the reset timers and
\* every step of handleExportClick
NextExport ==
    \/ ClickExportButton
    \/ MessageExportThread
    \/ ButtonResetTimer
    \/ \E e \in Slots : ScrapePageSettle(e)
    \/ GeneratePDF
    \/ \E e \in Slots : ExportAfterPDF(e)
    \/ \E e \in Slots : StorePDFSettle(e)
    \/ \E e \in Slots : StoreExportSettle(e)
    \/ \E e \in Slots : StorePdfBlobSettle(e)
    \/ \E e \in Slots : ExportCompleteSettle(e)
    \/ \E e \in Slots : ExportFinally(e)
    \/ \E e \in Slots : ExportReturn(e)

\* every awaited operation that settles resumes its activation, and a function
\* that runs without awaiting runs to its end
FairExport ==
    /\ InitExport
    /\ [][NextExport]_vars
    /\ WF_vars(GeneratePDF)
    /\ \A e \in Slots :
        /\ WF_vars(ScrapePageSettle(e))
        /\ WF_vars(ExportAfterPDF(e))
        /\ WF_vars(StorePDFSettle(e))
        /\ WF_vars(StoreExportSettle(e))
        /\ WF_vars(StorePdfBlobSettle(e))
        /\ WF_vars(ExportCompleteSettle(e))
        /\ WF_vars(ExportFinally(e))
        /\ WF_vars(ExportReturn(e))

(***************************************************************************)
(* The scraper alone: scrapeThreadData from its call (an accepted click)   *)
(* to its return, over threads of up to MaxPages pages with 0, 2 and 3     *)
(* message elements per page.                                              *)
(***************************************************************************)
Alice == Element("alice", 1, << >>, << >>)
Bob   == Element("bob", 2, << >>, << >>)
\* a message element with no author element and no text
Blank == Element("", 0, << >>, << >>)

ScrapePages == { << >>, << Alice, Bob >>, << Alice, Blank, Bob >> }

ScrapeForums == UNION { [1..n -> ScrapePages] : n \in 1..MaxPages }

InitScrape ==
    /\ emojiMap = "null"
    /\ call = NoFunctionCall
    /\ StorageIdle
    /\ variant \in Variants
    /\ isWoltLabThread = TRUE
    /\ forum \in ScrapeForums
    /\ titleLines = 1
    /\ isExporting = TRUE
    /\ isExtensionEnabled = TRUE
    /\ exportButton = TRUE
    /\ buttonState = "exporting"
    /\ timers = 0
    /\ \E fate \in FetchFates :
         exp = [ e \in Slots |-> IF e = 1 THEN StartScrape(fate) ELSE NoExport ]
    /\ lastCall = [ via |-> "button", whileExporting |-> FALSE, initialized |-> TRUE, started |-> TRUE,
                    response |-> "none" ]
    /\ initPc = "done"
    /\ retryCount = 0
    /\ InitGenerator

NextScrape == \E e \in Slots : ScrapePageSettle(e)

SpecScrape == InitScrape /\ [][NextScrape]_vars

\* every request that the network settles is resumed
FairScrape == SpecScrape /\ \A e \in Slots : WF_vars(ScrapePageSettle(e))

(***************************************************************************)
(* The layout engine alone: generatePDF from its call to its settlement,   *)
(* over threads of up to MaxPdfPosts posts with short and long quotes,     *)
(* bodies and attachment lists.                                            *)
(***************************************************************************)
Files(n) == [ i \in 1..n |-> "file" ]

PdfElements ==
    { Element("alice", c, q, at) :
        c \in {0, 2, LongContent},
        q \in { << >>, << 1, LongQuote >>, << LongQuote, 1 >> },
        at \in { << >>, Files(ManyAttachments) } }

PdfThreads == UNION { [1..n -> PdfElements] : n \in 0..MaxPdfPosts }

\* handleExportClick has called generatePDF with one of the threads
GeneratePDFCalled(threads, titles) ==
    /\ emojiMap = "null"
    /\ call = NoFunctionCall
    /\ StorageIdle
    /\ variant = "part_000"
    /\ isWoltLabThread = TRUE
    /\ \E elements \in threads :
         /\ forum = << elements >>
         /\ exp = [ e \in Slots |->
                      IF e = 1
                      THEN [ StartScrape("none") EXCEPT !.pc = "pdf",
                               !.posts = ScrapePagePosts(elements, 1) ]
                      ELSE NoExport ]
    /\ titleLines \in titles
    /\ isExporting = TRUE
    /\ isExtensionEnabled = TRUE
    /\ exportButton = TRUE
    /\ buttonState = "exporting"
    /\ timers = 0
    /\ lastCall = [ via |-> "button", whileExporting |-> FALSE, initialized |-> TRUE, started |-> TRUE,
                    response |-> "none" ]
    /\ initPc = "done"
    /\ retryCount = 0
    /\ pdfPc = "init"
    /\ pdfOwner = 1
    /\ pdfError = "none"
    /\ docPages = 0
    /\ currentY = Mm(MARGIN)
    /\ postIndex = 1
    /\ quoteIndex = 1
    /\ lineIndex = 1
    /\ rendered = 0
    /\ footers = 0
    /\ pageCause = "init"
    /\ pageTop = "none"
    /\ lastPaint = NoPaint
    /\ lastLink = NoLink
    /\ fills = << >>

InitPDF == GeneratePDFCalled(PdfThreads, {1, 2})

SpecPDF == InitPDF /\ [][GeneratePDF]_vars

(***************************************************************************)
(* The layout engine on threads whose posts carry links: a share link      *)
(* (post number and post URL) and attachments.                             *)
(***************************************************************************)
LinkElements ==
    { Element("alice", 1, << >>, << >>),
      WithShareLink(Element("bob", 1, << 1 >>, Files(2))),
      WithShareLink(Element("carol", 0, << >>, << >>)) }

LinkThreads == UNION { [1..n -> LinkElements] : n \in 1..MaxPdfPosts }

InitLink == GeneratePDFCalled(LinkThreads, {1})

SpecLink == InitLink /\ [][GeneratePDF]_vars

(***************************************************************************)
(* The layout engine on threads whose bodies hold emoji, while the emoji   *)
(* table loads.                                                            *)
(***************************************************************************)
EmojiElements ==
    { WithEmoji(messageEl, glyphs) :
        messageEl \in { Element("alice", 1, << >>, << >>),
                        Element("bob", 1, << 1 >>, Files(1)) },
        glyphs \in { << >>, << "grin" >>, << "alien" >>, << "sun", "alien" >> } }

EmojiThreads == UNION { [1..n -> EmojiElements] : n \in 1..MaxPdfPosts }

InitEmoji == GeneratePDFCalled(EmojiThreads, {1})

SpecEmoji == InitEmoji /\ [][GeneratePDF \/ LoadEmojiData]_vars

(***************************************************************************)
(* Properties of the scraper (SpecScrape, FairScrape).                     *)
(***************************************************************************)
\* the posts of pages 1..k that did not fail, page after page
RECURSIVE SucceededPosts(_, _)
SucceededPosts(k, failed) ==
    IF k = 0 THEN << >>
    ELSE SucceededPosts(k - 1, failed)
         \o (IF k \in failed THEN << >> ELSE ScrapePagePosts(forum[k], k))

\* pages whose request has settled
SettledPages(x) == IF x.pc = "fetch" THEN 1..(x.page - 1) ELSE 1..getTotalPages

Scraping == { e \in Slots : exp[e].pc \in {"fetch", "pdf"} }

\* C2: a page whose fetch or parse fails is caught inside the loop: it
\* contributes no post, the pages after it are still requested, and what
\* scrapeThreadData returns is exactly the posts of the pages that succeeded
C2_FailedPageSkipped ==
    \A e \in Scraping :
        /\ exp[e].failed \subseteq SettledPages(exp[e])
        /\ exp[e].pc = "fetch" =>
              exp[e].posts = SucceededPosts(exp[e].page - 1, exp[e].failed)
        /\ exp[e].pc = "pdf" =>
              /\ exp[e].page = getTotalPages
              /\ exp[e].posts = SucceededPosts(getTotalPages, exp[e].failed)

\* page 2 of 3 failed, pages 1 and 3 had posts, scrapeThreadData returned
C2_Witness ==
    /\ exp[1].pc = "pdf"
    /\ Len(forum) = 3
    /\ exp[1].failed = {2}
    /\ \A k \in 1..3 : Len(forum[k]) > 0
    /\ \E i \in DOMAIN exp[1].posts : exp[1].posts[i].page = 3

PostsOfPage(posts, k) == SelectSeq(posts, LAMBDA p : p.page = k)

RECURSIVE SumOfLengths(_, _, _)
SumOfLengths(k, failed, pages) ==
    IF k = 0 THEN 0
    ELSE SumOfLengths(k - 1, failed, pages)
         + (IF k \in failed THEN 0 ELSE Len(pages[k]))

\* C3: during and after the fetch loop the posts are the per-page lists in
\* ascending page order, each in its within-page order and undeduplicated:
\* the length is the sum of the per-page counts, the page index never
\* decreases along the sequence, and the run of page k is page k's list
C3_PageOrder ==
    \A e \in Scraping :
        LET posts == exp[e].posts
            last  == IF exp[e].pc = "fetch" THEN exp[e].page - 1 ELSE getTotalPages
        IN  /\ Len(posts) = SumOfLengths(last, exp[e].failed, forum)
            /\ \A i, j \in DOMAIN posts : i <= j => posts[i].page <= posts[j].page
            /\ \A k \in 1..last :
                  k \notin exp[e].failed =>
                      PostsOfPage(posts, k) = ScrapePagePosts(forum[k], k)

\* pages with 2, 0 and 3 posts were all scraped: 5 posts, and the post that is
\* on page 1 and on page 3 is there twice
C3_Witness ==
    /\ exp[1].pc = "pdf"
    /\ exp[1].failed = {}
    /\ Len(forum) = 3
    /\ Len(forum[1]) = 2 /\ Len(forum[2]) = 0 /\ Len(forum[3]) = 3
    /\ Len(exp[1].posts) = 5
    /\ exp[1].posts[1].author = exp[1].posts[3].author

\* C6: no post of the scraped thread has both empty content and the author
\* "Unknown Author"
C6_NoBlankPost ==
    \A e \in Scraping :
        \A i \in DOMAIN exp[e].posts :
            ~(exp[e].posts[i].content = 0 /\ exp[e].posts[i].author = "Unknown Author")

ScrapeReturned(e) == exp[e].pc = "pdf"

\* C9: a page request that is never answered is given up as a failure of
\* that page, and scrapeThreadData goes on and eventually returns
C9_TimeoutIsPageFailure ==
    \A e \in Slots :
        (exp[e].pc = "fetch" /\ exp[e].fetch = "timeout") ~> ScrapeReturned(e)

(***************************************************************************)
(* Properties of the layout engine (SpecPDF).                              *)
(***************************************************************************)
\* texts painted for a post
PostPaintKinds ==
    {"author", "quoteHeader", "quoteLine", "continued", "contentLine",
     "attachmentsLabel", "attachment"}

\* C1: every text of a post (header, quote header, quote line, body line,
\* attachments label, attachment line) is painted with currentY at or above
\* the bottom margin, pageHeight - 15 mm
C1_PaintAboveBottomMargin ==
    lastPaint.kind \in PostPaintKinds => lastPaint.y <= BottomLimit

\* pageHeight less the top and the bottom margin
PageContentHeight == Mm(pageHeight) - 2 * Mm(MARGIN)

TallBody(p) == p.content * ContentLineHeight > PageContentHeight

\* C7: a thread with a body taller than the content height of a page comes
\* out with more than one page, and a page started in the middle of a body
\* has "(continued...)" as the first text painted on it
C7_ContinuedMarker ==
    /\ (pdfPc = "resolved" /\ \E i \in DOMAIN threadPosts : TallBody(threadPosts[i]))
          => docPages > 1
    /\ pageCause = "content" => pageTop = "continued"

\* a tall body's line has just been painted on a page the body continued onto
C7_Witness ==
    /\ pdfPc = "content"
    /\ TallBody(post)
    /\ pageCause = "content"
    /\ pageTop = "continued"
    /\ lastPaint.kind = "contentLine"
    /\ lastPaint.page > 1

(***************************************************************************)
(* Properties of the content script (Spec).                                *)
(***************************************************************************)
\* C4: at most one activation of handleExportClick is past the guard at any
\* time; a call made while isExporting is true starts nothing, and a scrape
\* begins only in the step of a call made while isExporting was false
C4_OneExportInFlight ==
    /\ [](Cardinality(InFlight) <= 1)
    /\ [](lastCall.whileExporting => ~lastCall.started)
    /\ [][ (\E e \in Slots : exp[e].pc = "none" /\ exp'[e].pc # "none")
             => (~isExporting /\ lastCall'.started /\ ~lastCall'.whileExporting) ]_vars

\* a call arrived while an export was awaiting and was dropped at the guard
C4_Witness ==
    /\ lastCall.whileExporting
    /\ ~lastCall.started
    /\ isExporting
    /\ Cardinality(InFlight) = 1

Count(seq, a) == Cardinality({ i \in DOMAIN seq : seq[i] = a })

\* C5: a throw in initializePDF, addThreadHeader or a post's rendering makes
\* generatePDF reject; the export then has no blob, no download, no
\* persistence message, and ends in the error outcome.  Otherwise generatePDF
\* resolves with every post rendered and the footer added
C5_AllOrNothing ==
    /\ pdfError # "none" => pdfPc = "rejected"
    /\ pdfPc = "resolved" =>
          /\ pdfError = "none"
          /\ rendered = Len(threadPosts)
          /\ footers = 1
    /\ \A e \in Slots :
          /\ exp[e].pdfBlob = "rejected" =>
                /\ exp[e].downloads = 0
                /\ \A a \in PersistenceActions : Count(exp[e].sent, a) = 0
                /\ exp[e].outcome = "error"
                /\ exp[e].sent = << "exportError" >>
          /\ exp[e].downloads > 0 => exp[e].pdfBlob = "blob"

\* an export whose PDF generation threw has ended
C5_Witness ==
    \E e \in Slots :
        /\ exp[e].pc = "done"
        /\ exp[e].pdfBlob = "rejected"
        /\ exp[e].outcome = "error"
        /\ Len(exp[e].posts) > 0

\* C8: an "exportThread" message that arrives while an export is running is
\* not answered with success
C8_RejectedWhileExporting ==
    (lastCall.via = "message" /\ lastCall.whileExporting)
        => lastCall.response = "failure"

\* the first persistence message of the running content script
FirstPersistenceAction == IF variant = "content.js" THEN "storePDF" ELSE "storeExport"

\* C10: no persistence message is sent twice by an export, none is sent
\* before the download was triggered, a successful export has sent its
\* persistence message once, and an export whose persistence message failed
\* still ends with the success outcome: "exportComplete" sent, no "exportError"
C10_PersistOnce ==
    \A e \in Slots :
        /\ \A a \in PersistenceActions : Count(exp[e].sent, a) <= 1
        /\ (\E a \in PersistenceActions : Count(exp[e].sent, a) > 0)
              => (exp[e].downloads = 1 /\ exp[e].pdfBlob = "blob")
        /\ exp[e].outcome = "success" =>
              /\ Count(exp[e].sent, FirstPersistenceAction) = 1
              /\ Count(exp[e].sent, "exportComplete") = 1
              /\ Count(exp[e].sent, "exportError") = 0
        /\ (exp[e].pc = "done" /\ exp[e].persist \in {"failure", "reject", "throw"})
              => exp[e].outcome = "success"

(***************************************************************************)
(* Properties of the links (SpecLink).                                     *)
(***************************************************************************)
\* C11: when doc.link throws inside addTextWithLink the text is already
\* painted, the exception stays inside addTextWithLink, this.currentY is what
\* it was at the call, and generatePDF is rejected for no such failure: it
\* goes on to render every post and the footer
C11_LinkFailureCaught ==
    /\ lastLink.outcome \in {"none", "linked", "failed"}
    /\ lastLink.outcome = "failed" =>
          /\ lastLink.painted
          /\ lastLink.cursor = lastLink.y
    /\ pdfPc = "rejected" => pdfError \in {"init", "header", "post"}
    /\ (pdfPc = "resolved" /\ lastLink.outcome = "failed") =>
          /\ pdfError = "none"
          /\ rendered = Len(threadPosts)
          /\ footers = 1

\* the link of the last attachment failed and the document is complete
C11_Witness ==
    /\ pdfPc = "resolved"
    /\ lastLink.outcome = "failed"
    /\ lastLink.kind = "attachment"
    /\ lastLink.n > 1
    /\ rendered = Len(threadPosts)
    /\ footers = 1

(***************************************************************************)
(* Emoji substitution (SpecEmoji).                                         *)
(***************************************************************************)
\* C12: every text handed to this.doc.text has gone through the emoji
\* substitution first: when the table was loaded at that moment, the text holds
\* no emoji code point that has an entry in the table.
C12_SubstitutedBeforePaint ==
    lastPaint.map = "loaded" =>
        \A i \in DOMAIN lastPaint.glyphs : lastPaint.glyphs[i] \notin DOMAIN EmojiTable

\* the text in which every code point that has an entry in the table stands
\* as its description in square brackets, and every other code point as itself
RECURSIVE Described(_)
Described(text) ==
    IF text = << >>
    THEN << >>
    ELSE LET c == text[Len(text)]
         IN  Described(SubSeq(text, 1, Len(text) - 1)) \o
                (IF c \in DOMAIN EmojiTable THEN << "[" >> \o EmojiTable[c] \o << "]" >>
                 ELSE << c >>)

C14_FooterOnceOnLastPage ==
    /\ [](footers <= 1)
    /\ [](pdfPc = "resolved" =>
            /\ footers = 1
            /\ rendered = Len(threadPosts)
            /\ lastPaint.kind = "joke"
            /\ lastPaint.page = docPages)
    /\ [][footers' # footers =>
            /\ footers' = footers + 1
            /\ rendered = Len(threadPosts)
            /\ rendered' = rendered
            /\ docPages' = docPages
            /\ lastPaint'.page = docPages]_vars

\* a document of several pages, the last post with attachments, whose footer
\* was painted once, on the last page
C14_Witness ==
    /\ pdfPc = "resolved"
    /\ footers = 1
    /\ docPages > 1
    /\ rendered = Len(threadPosts)
    /\ rendered > 0
    /\ lastPaint.kind = "joke"
    /\ lastPaint.page = docPages
    /\ threadPosts[rendered].attachments # << >>

(***************************************************************************)
(* Post backgrounds (SpecPDF).                                             *)
(***************************************************************************)
\* C15: post backgrounds alternate with the post index: the fill painted for a
\* post with even index is the first background colour, for a post with odd
\* index the second, so the fills of consecutive posts differ.
C15_AlternatingBackgrounds ==
    \A i \in DOMAIN fills :
        /\ fills[i] = backgroundColor(i - 1)
        /\ (i + 1) \in DOMAIN fills => fills[i] # fills[i + 1]

(***************************************************************************)
(* Normalization of markup (SpecFormat).                                   *)
(***************************************************************************)
\* the nodes below these nodes
RECURSIVE Descendants(_)
Descendants(nodes) ==
    IF nodes = << >> THEN {}
    ELSE {Head(nodes)} \cup Descendants(Head(nodes).children)
            \cup Descendants(Tail(nodes))

\* the elements nested in a paragraph, bold, italic or blockquote element
NestedIn(element) ==
    UNION { Descendants(outer.children) :
              outer \in { d \in Descendants(element.children) :
                             d.tag \in {"p", "b", "i", "blockquote"} } }

\* the markers of a bold, italic or anchor element around a plain text
Marked(element) ==
    LET x == textContent(element)
    IN  CASE element.tag = "b" -> << "*", "*" >> \o x \o << "*", "*" >>
          [] element.tag = "i" -> << "*" >> \o x \o << "*" >>
          [] element.tag = "a" -> x \o << SP, "(" >> \o element.href \o << ")" >>

\* t occurs in s
Contains(s, t) ==
    \E i \in 0..(Len(s) - Len(t)) : SubSeq(s, i + 1, i + Len(t)) = t

\* C16: normalization recurses into nested markup: a bold, italic or anchor
\* element around a plain text, nested at any depth inside a paragraph, bold,
\* italic or blockquote element, yields its markers in the output.
C16_NestedMarkers ==
    (call.fn = "parseAndFormatContent" /\ call.done) =>
        \A element \in NestedIn(call.arg) :
            (/\ element.tag \in {"b", "i", "a"}
             /\ \A i \in DOMAIN element.children : element.children[i].tag = "#text")
                => Contains(call.result, Marked(element))

(***************************************************************************)
(* Normalization of text (SpecCleanup).                                    *)
(***************************************************************************)
\* C17: cleanupWhitespace is idempotent: cleaning an already cleaned text
\* returns it unchanged.
C17_CleanupIdempotent ==
    (call.fn = "cleanupWhitespace" /\ call.done) =>
        cleanupWhitespace(call.result) = call.result

\* a text with four line breaks, blanks between them and around them was
\* cleaned to a shorter text
C17_Witness ==
    /\ call.fn = "cleanupWhitespace"
    /\ call.done
    /\ call.arg = << SP, "a", LF, TAB, LF, LF >>
    /\ call.result = << "a" >>

\* the longest run of characters of class in s: its length
LongestRun(s, class) ==
    Last({0} \cup { n \in 1..Len(s) :
                      \E i \in 1..(Len(s) - n + 1) :
                          \A j \in i..(i + n - 1) : s[j] \in class })

\* C18: the result of cleanupWhitespace on a text of letters, spaces, tabs and
\* line breaks has no run of three or more line breaks, no run of two or more
\* spaces or tabs, no line that starts or ends with a space, and no leading or
\* trailing whitespace.
C18_CleanupResult ==
    (call.fn = "cleanupWhitespace" /\ call.done) =>
        LET r == call.result
        IN  /\ LongestRun(r, {LF}) < 3
            /\ LongestRun(r, {SP, TAB}) < 2
            /\ \A i \in DOMAIN r :
                   r[i] = SP => /\ i > 1 /\ i < Len(r)
                                /\ r[i - 1] # LF /\ r[i + 1] # LF
            /\ r # << >> => r[1] \notin WhiteSpace /\ r[Len(r)] \notin WhiteSpace

\* a text with a tab at a line end and three line breaks was cleaned
\* to two lines separated by an empty one
C18_Witness ==
    /\ call.fn = "cleanupWhitespace"
    /\ call.done
    /\ call.arg = << "a", TAB, LF, LF, LF, "a" >>
    /\ call.result = << "a", LF, LF, "a" >>

(***************************************************************************)
(* Post numbers (SpecPostNumber) and attachment types (SpecAttachmentType).*)
(***************************************************************************)
\* C19: for a share link whose trimmed text is one or more '#' followed by one
\* or more digits, getPostNumber returns '#' followed by those digits; for any
\* other text, or without a share link, it returns the empty string.
C19_OneLeadingHash ==
    (call.fn = "getPostNumber" /\ call.done) =>
        LET text == trim(call.arg.text)
            ordinals == { k \in 1..(Len(text) - 1) :
                            /\ \A i \in 1..k : text[i] = "#"
                            /\ \A i \in (k + 1)..Len(text) : text[i] \in Digits }
        IN  /\ (call.arg.present /\ ordinals # {}) =>
                   \A k \in ordinals :
                       call.result = << "#" >> \o SubSeq(text, k + 1, Len(text))
            /\ (~call.arg.present \/ ordinals = {}) => call.result = << >>

\* the share link text "##3" gave "#3"
C19_Witness ==
    /\ call.fn = "getPostNumber"
    /\ call.done
    /\ call.arg.present
    /\ call.arg.text = << "#", "#", "3" >>
    /\ call.result = << "#", "3" >>

\* C20: getAttachmentType classifies a url by the extension after its last
\* dot, whatever the letter case: image, video or audio for the listed
\* extensions, file for every other or missing extension; never anything else.
C20_TypeByExtension ==
    (call.fn = "getAttachmentType" /\ call.done) =>
        /\ call.result \in {"image", "video", "audio", "file"}
        /\ call.result = "image" <=> call.arg.extension \in imageTypes
        /\ call.result = "video" <=> call.arg.extension \in videoTypes
        /\ call.result = "audio" <=> call.arg.extension \in audioTypes

\* a url with dots in its path that ends in ".JPEG" was classified as image
C20_Witness ==
    /\ call.fn = "getAttachmentType"
    /\ call.done
    /\ call.arg.url = << "h", ".", "o", "/", "f", ".", "J", "P", "E", "G" >>
    /\ call.result = "image"

(***************************************************************************)
(* Page breaks inside a body (SpecPDF).                                    *)
(***************************************************************************)
\* C21: every wrapped body line is checked before it is painted: it is painted
\* at a cursor y with y + lineHeight <= pageHeight - MARGIN; when the check
\* fails a page is added, the cursor restarts at the top margin, the marker is
\* painted and the same line is painted below it on the new page.  Each step of
\* the loop paints the one line it is at and moves to the next, so no line is
\* skipped, repeated or painted out of order.
C21_BodyLineChecked ==
    /\ [](lastPaint.kind = "contentLine" =>
             lastPaint.y + ContentLineHeight <= BottomLimit)
    /\ [][(pdfPc = "content" /\ post.content > 0) =>
            /\ lastPaint'.kind = "contentLine"
            /\ \/ lineIndex < post.content /\ lineIndex' = lineIndex + 1 /\ pdfPc' = "content"
               \/ lineIndex = post.content /\ pdfPc' = "attachments"
            /\ IF currentY + ContentLineHeight <= BottomLimit
               THEN /\ docPages' = docPages
                    /\ lastPaint'.page = docPages
                    /\ lastPaint'.y = currentY
               ELSE /\ docPages' = docPages + 1
                    /\ pageTop' = "continued"
                    /\ lastPaint'.page = docPages + 1
                    /\ lastPaint'.y = Mm(MARGIN) + Mm(LINE_HEIGHT)
            /\ currentY' = lastPaint'.y + ContentLineHeight
            /\ lastPaint.kind = "contentLine" =>
                   \/ lastPaint'.page > lastPaint.page
                   \/ lastPaint'.page = lastPaint.page /\ lastPaint'.y > lastPaint.y]_vars

\* a body line other than the first was painted right below the marker of a
\* page the body continued onto
C21_Witness ==
    /\ lastPaint.kind = "contentLine"
    /\ lastPaint.page = docPages
    /\ docPages > 1
    /\ pageCause = "content"
    /\ lastPaint.y = Mm(MARGIN) + Mm(LINE_HEIGHT)
    /\ lineIndex > 2
    /\ currentY = lastPaint.y + ContentLineHeight

(***************************************************************************)
(* Order of the page requests (SpecScrape).                                *)
(***************************************************************************)
\* C22: scrapeThreadData requests the pages in ascending order 1, 2, ...,
\* totalPages, each once, and requests page k + 1 only after the request of
\* page k has resolved or rejected: at most one request is outstanding.
C22_PagesOneAtATime ==
    \A e \in Scraping :
        LET x == exp[e]
        IN  /\ x.requested = [ k \in 1..Len(x.requested) |-> k ]
            /\ Len(x.requested) <= getTotalPages
            /\ Len(x.requested) - x.settled \in {0, 1}
            /\ x.pc = "fetch" => /\ Len(x.requested) = x.page
                                  /\ x.settled = x.page - 1
            /\ x.pc = "pdf" => /\ Len(x.requested) = getTotalPages
                                /\ x.settled = getTotalPages

\* the third page of a thread is being requested after the first resolved and
\* the second was rejected
C22_Witness ==
    /\ exp[1].pc = "fetch"
    /\ exp[1].requested = << 1, 2, 3 >>
    /\ exp[1].settled = 2
    /\ exp[1].failed = {2}
    /\ exp[1].fetch = "timeout"

(***************************************************************************)
(* The cursor and new pages (SpecPDF).                                     *)
(***************************************************************************)
\* the space between the top margin and the first text of a page, by what
\* started the page: the post padding, nothing before a quote header, the
\* marker line before a body line, half a line before the attachments label
FirstTextOffset(cause) ==
    CASE cause = "post" -> Mm(POST_PADDING)
      [] cause = "quote" -> 0
      [] cause = "content" -> Mm(LINE_HEIGHT)
      [] cause = "attachments" -> LINE_HEIGHT * 50

\* C23: the cursor is reset to the top margin exactly when a new page is
\* started: after every doc.addPage() the texts of the new page are laid out
\* from currentY = MARGIN, and the cursor moves up only when a page has been
\* added (the footer, which is placed at its fixed line, aside).
C23_ResetWithNewPage ==
    /\ [][(docPages > 0 /\ docPages' # docPages) =>
            /\ docPages' = docPages + 1
            /\ lastPaint'.page = docPages'
            /\ lastPaint'.y = Mm(MARGIN) + FirstTextOffset(pageCause')]_vars
    /\ [][(pdfPc \notin {"idle", "init"} /\ currentY' < currentY) =>
            \/ docPages' = docPages + 1
            \/ footers' = footers + 1]_vars

\* a quote header is the first text of a second page, painted at the top margin
C23_Witness ==
    /\ docPages = 2
    /\ pageCause = "quote"
    /\ pageTop = "quoteHeader"
    /\ lastPaint.kind = "quoteHeader"
    /\ lastPaint.page = 2
    /\ lastPaint.y = Mm(MARGIN)

\* C24: the quota cleanup of the metadata removes the oldest entry first, one
\* at a time, and only until the usage is back under the threshold: once the
\* usage re-read after a removal is below quotaThresholdPercent, no further
\* entry is removed.  (A run is suspended at "set" right after a removal; with
\* a second removal made, updatedUsage is the usage re-read after the first.)
C24_StopsUnderThreshold ==
    \A j \in JobIds :
        (/\ jobs[j].fn = "_cleanupChromeMetadataByQuota"
         /\ jobs[j].pc = "set"
         /\ jobs[j].removed >= 2)
            => AtOrAbove(jobs[j].updatedUsage, quotaThresholdPercent)

\* C25: every export that has started eventually releases the isExporting
\* guard, on every exit path (success, caught error), provided each operation
\* it awaits settles: an activation whose page request is never answered aside,
\* it reaches the end of its finally block with isExporting false.
C25_GuardReleased ==
    \A e \in Slots :
        (exp[e].pc \notin {"none", "done"})
            ~> ((exp[e].pc = "done" /\ ~isExporting) \/ exp[e].fetch = "timeout")

\* an export whose PDF generation was rejected has run its catch and finally
\* blocks in the variant that awaits the exportError message: the guard is free
C25_Witness ==
    /\ variant = "part_000"
    /\ \E e \in Slots :
        /\ exp[e].pc = "done"
        /\ exp[e].outcome = "error"
        /\ exp[e].pdfBlob = "rejected"
    /\ ~isExporting

\* init has found the extension disabled (a stored false, or no defined value
\* in maxRetries reads) on a thread page and no toggle has been handled since:
\* there is no button, and the UI manager's flag is still as constructed
DisabledAtInit ==
    /\ initPc = "done"
    /\ isWoltLabThread
    /\ ~exportButton
    /\ isExtensionEnabled

\* C26: when init has found the extension disabled, no export can be started,
\* neither by a click on the button nor by an 'exportThread' message, until a
\* toggle enables the extension: the last call of handleExportClick made after
\* init has started nothing.
C26_NoExportWhileDisabled ==
    (DisabledAtInit /\ lastCall.initialized) => ~lastCall.started

\* C27: while an export is in flight the button stays in the 'exporting'
\* state: no delayed reset armed by the 'success' or 'error' state of an
\* earlier export puts it back to 'ready' before the running export has ended.
\* (A step that keeps the export running and the button in place does not take
\* the button from 'exporting' to 'ready'.)
C27_NoResetWhileExporting ==
    [][(/\ isExporting /\ isExporting'
        /\ exportButton /\ exportButton'
        /\ buttonState = "exporting")
            => buttonState' # "ready"]_vars

InHistory(id) == \E i \in DOMAIN storage.exportHistory : storage.exportHistory[i].id = id

\* C28: every export added by an 'addExportToHistory' request that was
\* answered with success is in the stored exportHistory afterwards, also when
\* two requests are handled concurrently: no entry is lost.
C28_NoEntryLost ==
    \A j \in JobIds :
        (jobs[j].fn = "manageExportHistory" /\ jobs[j].response = "success")
            => InHistory(jobs[j].id)

\* C29: an export whose history entry is marked pdfStored: true has a PDF
\* record in the 'pdfs' store: a storeExport call that has returned has stored
\* the metadata together with the PDF or, when it reported failure, has left
\* no metadata entry behind.
C29_MetadataWithPdf ==
    \A j \in JobIds :
        (jobs[j].fn = "storeExport" /\ jobs[j].pc = "done") =>
            /\ \A i \in DOMAIN storage.exportHistory :
                  (storage.exportHistory[i].id = jobs[j].id /\ storage.exportHistory[i].pdfStored)
                      => jobs[j].id \in storage.pdfs
            /\ jobs[j].response = "failure" => ~InHistory(jobs[j].id)

\* C30: the storage wait of init terminates: at most maxRetries reads are
\* made; the first read with a defined value ends the wait and decides about
\* the button (added only on a thread page); after maxRetries reads that
\* returned undefined or threw, the extension is taken as disabled and init
\* adds no button; in every case init ends with isInitialized true.
C30_StorageWaitEnds ==
    /\ [](retryCount <= maxRetries)
    /\ [](retryCount = maxRetries => isInitialized)
    /\ [][(initPc = "read" /\ initPc' = "done") =>
            \/ /\ retryCount' = retryCount
               /\ retryCount < maxRetries
               /\ (exportButton' /\ ~exportButton) => isWoltLabThread
            \/ /\ retryCount' = retryCount + 1
               /\ retryCount' = maxRetries
               /\ exportButton' = exportButton]_vars
    /\ [][(initPc = "read" /\ initPc' = "read" /\ retryCount' # retryCount) =>
            (retryCount' = retryCount + 1 /\ exportButton' = exportButton)]_vars
    /\ <>isInitialized

\* init has given up after maxRetries failed reads on a thread page: it is
\* initialized and there is no button
C30_Witness ==
    /\ isInitialized
    /\ retryCount = maxRetries
    /\ isWoltLabThread
    /\ ~exportButton

=============================================================================
